---- MODULE Spec2Model ----
(***************************************************************************)
(* Model of the SpaceRAgent observation encoder and action decoder          *)
(* (drl_air_hockey/agents/spacer_agent.py).                                 *)
(*                                                                          *)
(* Numbers.  Physical quantities of the encoder (positions, joint angles)   *)
(* are integers on a grid; normalized quantities are exact rationals        *)
(* <<n, d>> with d > 0, kept in lowest terms.  Time is counted in tenths of *)
(* a second.  The arithmetic of the decoder is binary floating point of     *)
(* DoubleBits significant bits (float64) and the float32 casts of the       *)
(* encoder keep SingleBits significant bits, both rounding to nearest with  *)
(* ties to even; a rounded number is again an exact rational.               *)
(***************************************************************************)
EXTENDS Integers, Sequences, FiniteSets, TLC

None == <<>>

\* ------------------------------------------------------------ rationals
Abs(x) == IF x < 0 THEN -x ELSE x

RECURSIVE Gcd(_, _)
Gcd(a, b) == IF b = 0 THEN a ELSE Gcd(b, a % b)

Rat(n, d) ==
    LET g == IF d = 1 THEN 1 ELSE Gcd(Abs(n), Abs(d))
        s == IF d < 0 THEN -1 ELSE 1
    IN  <<(s * n) \div g, (s * d) \div g>>

RInt(k) == <<k, 1>>
RAdd(a, b) == Rat(a[1] * b[2] + b[1] * a[2], a[2] * b[2])
RSub(a, b) == Rat(a[1] * b[2] - b[1] * a[2], a[2] * b[2])
RMul(a, b) == Rat(a[1] * b[1], a[2] * b[2])
RLeq(a, b) == a[1] * b[2] <= b[1] * a[2]
RLt(a, b) == a[1] * b[2] < b[1] * a[2]
RSign(a) == IF a[1] > 0 THEN 1 ELSE IF a[1] < 0 THEN -1 ELSE 0

\* np.clip(x, -1.0, 1.0)
Clip1(a) == IF RLt(RInt(1), a) THEN RInt(1) ELSE IF RLt(a, RInt(-1)) THEN RInt(-1) ELSE a

InUnit(a) == RLeq(RInt(-1), a) /\ RLeq(a, RInt(1))

\* ------------------------------------------------------------ floating point
\* significant bits of the float64 and float32 formats of the model
DoubleBits == 4
SingleBits == 2

Pow2(k) == 2 ^ k

\* a / d rounded to the nearest integer, ties to even
HalfEven(a, d) ==
    LET q == a \div d
        r == a % d
    IN  IF 2 * r > d \/ (2 * r = d /\ q % 2 = 1) THEN q + 1 ELSE q

\* the exponent e with 2^(p-1) <= (a / d) / 2^e < 2^p, for a / d > 0
RECURSIVE Exponent(_, _, _)
Exponent(a, d, p) ==
    IF a >= d * Pow2(p) THEN Exponent(a, 2 * d, p) + 1
    ELSE IF a < d * Pow2(p - 1) THEN Exponent(2 * a, d, p) - 1
    ELSE 0

\* r rounded to p significant bits, ties to even
RoundBits(r, p) ==
    IF r[1] = 0 THEN r
    ELSE LET a == Abs(r[1])
             e == Exponent(a, r[2], p)
             up == IF e > 0 THEN Pow2(e) ELSE 1
             down == IF e < 0 THEN Pow2(-e) ELSE 1
             m == HalfEven(a * down, r[2] * up)
         IN  Rat(RSign(r) * m * up, down)

\* float64 arithmetic: the exact result, rounded
F64(r) == RoundBits(r, DoubleBits)
FAdd(a, b) == F64(RAdd(a, b))
FSub(a, b) == F64(RSub(a, b))
FMul(a, b) == F64(RMul(a, b))
FDiv(a, b) == F64(Rat(a[1] * b[2], a[2] * b[1]))
\* ndarray.astype(np.float32)
F32(r) == RoundBits(r, SingleBits)

\* ------------------------------------------------------------ sequences
Last(s) == s[Len(s)]

\* n copies of v  (np.tile(v, (n, 1)))
Tile(v, n) == [i \in 1..n |-> v]

\* an append that drops the newest entry when full
DequeAppend_dropping_newest(q, v, n) ==
    IF n = 0 THEN <<>>
    ELSE IF Len(q) >= n THEN Append(SubSeq(q, 1, n - 1), v)
    ELSE Append(q, v)

\* deque(maxlen = n).append(v): drop the oldest entry when full
DequeAppend(q, v, n) ==
    IF n = 0 THEN <<>>
    ELSE IF Len(q) >= n THEN Append(SubSeq(q, Len(q) - n + 2, Len(q)), v)
    ELSE Append(q, v)

\* deque(maxlen = n).extend(vs)
RECURSIVE DequeExtend(_, _, _)
DequeExtend(q, vs, n) ==
    IF vs = <<>> THEN q
    ELSE DequeExtend(DequeAppend(q, Head(vs), n), Tail(vs), n)

RECURSIVE Flatten(_)
Flatten(ss) == IF ss = <<>> THEN <<>> ELSE Head(ss) \o Flatten(Tail(ss))

\* ------------------------------------------------------------ environment
\* env_info of the 7-joint task, on the model's grid
NJoints == 7
MAX_TIME_UNTIL_PENALTY_S == 150

\* puck_table_minmax (x and y range of the puck centre)
PuckXLow == 0
PuckXHigh == 16
PuckYLow == -4
PuckYHigh == 4
\* ee_table_minmax (operating area of the mallet)
EeXLow == 1
EeXHigh == 7
EeYLow == -2
EeYHigh == 2
\* robot_joint_pos_limit, the same for every joint
JointPosLow == -2
JointPosHigh == 2
robot_ee_desired_height == 0

\* SpaceRAgent._normalize_value
normalize_value(value, low_in, high_in) ==
    Rat(2 * (value - low_in) - (high_in - low_in), high_in - low_in)

\* SpaceRAgent._unnormalize_value, for a rational value
unnormalize_value(value, low_out, high_out) ==
    RAdd(RMul(RMul(RInt(high_out - low_out), RAdd(value, RInt(1))), Rat(1, 2)),
         RInt(low_out))

\* _unnormalize_value with the division by 2 left out
unnormalize_value_f64_not_halved(value, low_out, high_out) ==
    FAdd(FMul(FSub(high_out, low_out), FAdd(value, RInt(1))), low_out)

\* SpaceRAgent._normalize_value in float64, operation by operation:
\* 2 * (value - low_in) / (high_in - low_in) - 1
normalize_value_f64(value, low_in, high_in) ==
    FSub(FDiv(FMul(RInt(2), FSub(value, low_in)), FSub(high_in, low_in)), RInt(1))

\* SpaceRAgent._unnormalize_value in float64, operation by operation:
\* (high_out - low_out) * (value + 1) / 2 + low_out
unnormalize_value_f64(value, low_out, high_out) ==
    FAdd(FDiv(FMul(FSub(high_out, low_out), FAdd(value, RInt(1))), RInt(2)), low_out)

\* sampled yaw angles: (5 sin, 5 cos) of twelve angles around the circle
YawTable ==
    << <<0, 5>>, <<3, 4>>, <<4, 3>>, <<5, 0>>, <<4, -3>>, <<3, -4>>,
       <<0, -5>>, <<-3, -4>>, <<-4, -3>>, <<-5, 0>>, <<-4, 3>>, <<-3, 4>> >>
YawSin(k) == Rat(YawTable[(k % 12) + 1][1], 5)
YawCos(k) == Rat(YawTable[(k % 12) + 1][2], 5)

\* ------------------------------------------------------------ the agent
Schemes == 2..7

\* history depths set by __init__ for each scheme
n_stacked_obs_participant_ee_pos(scheme) ==
    CASE scheme = 2 -> 1 [] scheme = 3 -> 3 [] scheme = 4 -> 2
      [] scheme = 5 -> 4 [] scheme = 6 -> 4 [] scheme = 7 -> 2
n_stacked_obs_opponent_ee_pos(scheme) ==
    CASE scheme = 2 -> 1 [] scheme = 3 -> 5 [] scheme = 4 -> 2
      [] scheme = 5 -> 4 [] scheme = 6 -> 4 [] scheme = 7 -> 2
n_stacked_obs_puck_pos(scheme) ==
    CASE scheme = 2 -> 1 [] scheme = 3 -> 9 [] scheme = 4 -> 2
      [] scheme = 5 -> 4 [] scheme = 6 -> 4 [] scheme = 7 -> 10
n_stacked_obs_puck_rot(scheme) == IF scheme = 7 THEN 2 ELSE 0

\* observation_space without the rotation history of scheme 7
observation_space_without_rot(self) ==
    1 + 2 * n_stacked_obs_participant_ee_pos(self.scheme)
      + 2 * n_stacked_obs_opponent_ee_pos(self.scheme)
      + 2 * n_stacked_obs_puck_pos(self.scheme)
      + (IF self.scheme \in {6, 7} THEN 7 ELSE 0)

\* SpaceRAgent.observation_space: the declared length of the observation
observation_space(self) ==
    LET n_obs == 1 + 2 * n_stacked_obs_participant_ee_pos(self.scheme)
                   + 2 * n_stacked_obs_opponent_ee_pos(self.scheme)
                   + 2 * n_stacked_obs_puck_pos(self.scheme)
        n_joints == IF self.scheme \in {6, 7} THEN n_obs + 7 ELSE n_obs
    IN  IF self.scheme = 7
        THEN n_joints + 2 * n_stacked_obs_puck_rot(self.scheme)
        ELSE n_joints

\* reset without the clearing of the filter's previous value
reset_keeping_filter(self) ==
    [self EXCEPT
        !.lose_tracking_probability = RInt(0),
        !.lose_tracking_n_steps_remaining = 0,
        !.penalty_timer = 0,
        !.penalty_side = IF self.scheme # 2 THEN None ELSE @,
        !.stacked_obs_participant_ee_pos = <<>>,
        !.stacked_obs_opponent_ee_pos = <<>>,
        !.stacked_obs_puck_pos = <<>>,
        !.stacked_obs_puck_rot = IF self.scheme = 7 THEN <<>> ELSE @,
        !.new_episode = TRUE]

\* SpaceRAgent.reset
reset(self) ==
    [self EXCEPT
        !.lose_tracking_probability = RInt(0),
        !.lose_tracking_n_steps_remaining = 0,
        !.previous_ee_pos_xy_norm =
            IF self.filter_actions_enabled THEN None ELSE @,
        !.penalty_timer = 0,
        !.penalty_side = IF self.scheme # 2 THEN None ELSE @,
        !.stacked_obs_participant_ee_pos = <<>>,
        !.stacked_obs_opponent_ee_pos = <<>>,
        !.stacked_obs_puck_pos = <<>>,
        !.stacked_obs_puck_rot = IF self.scheme = 7 THEN <<>> ELSE @,
        !.new_episode = TRUE]

\* SpaceRAgent.__init__ for a supported scheme; it ends with self.reset()
SpaceRAgent(scheme, train, filter_enabled, filter_coefficient, dt, prob_inc, min_steps, max_steps) ==
    reset([evaluate |-> ~train,
           scheme |-> scheme,
           filter_actions_enabled |-> filter_enabled,
           filter_actions_coefficient |-> filter_coefficient,
           sim_dt |-> dt,
           loss_of_tracking_prob_inc_per_step |-> prob_inc,
           loss_of_tracking_min_steps |-> min_steps,
           loss_of_tracking_max_steps |-> max_steps,
           lose_tracking_probability |-> RInt(0),
           lose_tracking_n_steps_remaining |-> 0,
           previous_ee_pos_xy_norm |-> None,
           penalty_timer |-> 0,
           penalty_side |-> None,
           stacked_obs_participant_ee_pos |-> <<>>,
           stacked_obs_opponent_ee_pos |-> <<>>,
           stacked_obs_puck_pos |-> <<>>,
           stacked_obs_puck_rot |-> <<>>,
           new_episode |-> TRUE,
           current_joint_pos |-> None,
           current_ee_pos |-> None,
           current_ee_pos_xy_norm |-> None])

\* scheme_error with the retired scheme 1 accepted
scheme_error_accepting_retired(scheme) ==
    IF scheme \in 1..7 THEN None ELSE <<"ValueError", "Invalid scheme">>

\* the scheme branch of __init__: the exception it raises, None when the
\* scheme is one of the branches that set the history depths
scheme_error(scheme) ==
    IF scheme = 1 THEN <<"ValueError", "Scheme 1 is no longer supported">>
    ELSE IF scheme \in Schemes THEN None
    ELSE <<"ValueError", "Invalid scheme">>

\* SpaceRAgent(...) as the caller sees it: the exception raised, or the agent
construct(scheme, train, filter_enabled, filter_coefficient, dt, prob_inc, min_steps, max_steps) ==
    IF scheme_error(scheme) # None
    THEN [error |-> scheme_error(scheme), self |-> None]
    ELSE [error |-> None,
          self |-> SpaceRAgent(scheme, train, filter_enabled, filter_coefficient,
                               dt, prob_inc, min_steps, max_steps)]

\* penalty_update with the first tick of an episode counted as dwell
penalty_update_counting_first(self, s) ==
    IF self.penalty_side = None THEN << <<s>>, self.penalty_timer + self.sim_dt >>
    ELSE IF s = self.penalty_side[1]
         THEN << self.penalty_side, self.penalty_timer + self.sim_dt >>
         ELSE << <<-1 * self.penalty_side[1]>>, 0 >>

\* the penalty timer of schemes 3..7: <<penalty_side, penalty_timer>> after
\* a tick that sees the puck on side s
penalty_update(self, s) ==
    IF self.penalty_side = None THEN << <<s>>, self.penalty_timer >>
    ELSE IF s = self.penalty_side[1]
         THEN << self.penalty_side, self.penalty_timer + self.sim_dt >>
         ELSE << <<-1 * self.penalty_side[1]>>, 0 >>

\* penalty_step reading the stored puck position while tracking is lost
penalty_step_reading_stored_puck(self, puck_x_norm) ==
    LET blind == self.scheme = 7 /\ ~self.evaluate /\ ~self.new_episode
                 /\ self.lose_tracking_n_steps_remaining > 0
        x == IF blind THEN self.stacked_obs_puck_pos[Len(self.stacked_obs_puck_pos)][1]
             ELSE puck_x_norm
    IN  IF self.scheme = 2
        THEN IF RLt(x, RInt(0))
             THEN [current |-> Rat(self.penalty_timer, MAX_TIME_UNTIL_PENALTY_S),
                   side |-> None,
                   timer |-> self.penalty_timer + self.sim_dt]
             ELSE [current |-> RInt(-1), side |-> None, timer |-> 0]
        ELSE LET u == penalty_update(self, RSign(x))
                 v == Rat(u[1][1] * u[2], MAX_TIME_UNTIL_PENALTY_S)
             IN  [current |-> IF self.scheme \in {3, 4} THEN v ELSE Clip1(v),
                  side |-> u[1],
                  timer |-> u[2]]

\* the first element of the observation and the timer state after the tick
penalty_step(self, puck_x_norm) ==
    IF self.scheme = 2
    THEN IF RLt(puck_x_norm, RInt(0))
         THEN [current |-> Rat(self.penalty_timer, MAX_TIME_UNTIL_PENALTY_S),
               side |-> None,
               timer |-> self.penalty_timer + self.sim_dt]
         ELSE [current |-> RInt(-1), side |-> None, timer |-> 0]
    ELSE LET u == penalty_update(self, RSign(puck_x_norm))
             v == Rat(u[1][1] * u[2], MAX_TIME_UNTIL_PENALTY_S)
         IN  [current |-> IF self.scheme \in {3, 4} THEN v ELSE Clip1(v),
              side |-> u[1],
              timer |-> u[2]]

\* unsigned_penalty_step reading the timer after its increment
unsigned_penalty_step_after_increment(penalty_timer, puck_x_norm, dt) ==
    IF RLt(puck_x_norm, RInt(0))
    THEN [current |-> Clip1(FDiv(FAdd(penalty_timer, dt),
                                 RInt(MAX_TIME_UNTIL_PENALTY_S))),
          timer |-> FAdd(penalty_timer, dt)]
    ELSE [current |-> RInt(-1), timer |-> RInt(0)]

\* the penalty timer of scheme 2 in float64: the first element of the
\* clipped observation and self.penalty_timer after the tick
unsigned_penalty_step(penalty_timer, puck_x_norm, dt) ==
    IF RLt(puck_x_norm, RInt(0))
    THEN [current |-> Clip1(FDiv(penalty_timer, RInt(MAX_TIME_UNTIL_PENALTY_S))),
          timer |-> FAdd(penalty_timer, dt)]
    ELSE [current |-> RInt(-1), timer |-> RInt(0)]

\* append_and_fill without the fill loop
append_without_fill(q, v, n) == DequeAppend(q, v, n)

\* schemes 2..4: append, then fill an episode's first buffer with copies
append_and_fill(q, v, n) ==
    LET a == DequeAppend(q, v, n)
    IN  a \o Tile(v, n - Len(a))

\* schemes 5..7: tile on the first tick of an episode, append afterwards
extend_or_append(self, q, v, n) ==
    IF self.new_episode THEN DequeExtend(q, Tile(v, n), n)
    ELSE DequeAppend(q, v, n)

\* track_puck without the evaluate branch
track_puck_in_any_mode(self, pos, rot, rnd) ==
    LET np == n_stacked_obs_puck_pos(self.scheme)
        nr == n_stacked_obs_puck_rot(self.scheme)
    IN  IF self.lose_tracking_n_steps_remaining > 0
        THEN [puck |-> DequeAppend(self.stacked_obs_puck_pos,
                                   Last(self.stacked_obs_puck_pos), np),
              rot |-> DequeAppend(self.stacked_obs_puck_rot,
                                  Last(self.stacked_obs_puck_rot), nr),
              prob |-> self.lose_tracking_probability,
              steps |-> self.lose_tracking_n_steps_remaining - 1,
              draws |-> 0]
        ELSE IF RLt(rnd.rand, self.lose_tracking_probability)
        THEN [puck |-> DequeAppend(self.stacked_obs_puck_pos, pos, np),
              rot |-> DequeAppend(self.stacked_obs_puck_rot, rot, nr),
              prob |-> RInt(0),
              steps |-> rnd.randint,
              draws |-> 2]
        ELSE [puck |-> DequeAppend(self.stacked_obs_puck_pos, pos, np),
              rot |-> DequeAppend(self.stacked_obs_puck_rot, rot, nr),
              prob |-> FAdd(self.lose_tracking_probability,
                            self.loss_of_tracking_prob_inc_per_step),
              steps |-> self.lose_tracking_n_steps_remaining,
              draws |-> 1]

\* track_puck storing the fresh reading on a blind tick
track_puck_storing_blind_readings(self, pos, rot, rnd) ==
    LET np == n_stacked_obs_puck_pos(self.scheme)
        nr == n_stacked_obs_puck_rot(self.scheme)
    IN  IF self.evaluate
        THEN [puck |-> DequeAppend(self.stacked_obs_puck_pos, pos, np),
              rot |-> DequeAppend(self.stacked_obs_puck_rot, rot, nr),
              prob |-> self.lose_tracking_probability,
              steps |-> self.lose_tracking_n_steps_remaining,
              draws |-> 0]
        ELSE IF self.lose_tracking_n_steps_remaining > 0
        THEN [puck |-> DequeAppend(self.stacked_obs_puck_pos, pos, np),
              rot |-> DequeAppend(self.stacked_obs_puck_rot, rot, nr),
              prob |-> self.lose_tracking_probability,
              steps |-> self.lose_tracking_n_steps_remaining - 1,
              draws |-> 0]
        ELSE IF RLt(rnd.rand, self.lose_tracking_probability)
        THEN [puck |-> DequeAppend(self.stacked_obs_puck_pos, pos, np),
              rot |-> DequeAppend(self.stacked_obs_puck_rot, rot, nr),
              prob |-> RInt(0),
              steps |-> rnd.randint,
              draws |-> 2]
        ELSE [puck |-> DequeAppend(self.stacked_obs_puck_pos, pos, np),
              rot |-> DequeAppend(self.stacked_obs_puck_rot, rot, nr),
              prob |-> FAdd(self.lose_tracking_probability,
                            self.loss_of_tracking_prob_inc_per_step),
              steps |-> self.lose_tracking_n_steps_remaining,
              draws |-> 1]

\* track_puck raising the drop probability on a blind tick too
track_puck_raising_when_blind(self, pos, rot, rnd) ==
    LET np == n_stacked_obs_puck_pos(self.scheme)
        nr == n_stacked_obs_puck_rot(self.scheme)
    IN  IF self.evaluate
        THEN [puck |-> DequeAppend(self.stacked_obs_puck_pos, pos, np),
              rot |-> DequeAppend(self.stacked_obs_puck_rot, rot, nr),
              prob |-> self.lose_tracking_probability,
              steps |-> self.lose_tracking_n_steps_remaining,
              draws |-> 0]
        ELSE IF self.lose_tracking_n_steps_remaining > 0
        THEN [puck |-> DequeAppend(self.stacked_obs_puck_pos,
                                   Last(self.stacked_obs_puck_pos), np),
              rot |-> DequeAppend(self.stacked_obs_puck_rot,
                                  Last(self.stacked_obs_puck_rot), nr),
              prob |-> FAdd(self.lose_tracking_probability,
                            self.loss_of_tracking_prob_inc_per_step),
              steps |-> self.lose_tracking_n_steps_remaining - 1,
              draws |-> 0]
        ELSE IF RLt(rnd.rand, self.lose_tracking_probability)
        THEN [puck |-> DequeAppend(self.stacked_obs_puck_pos, pos, np),
              rot |-> DequeAppend(self.stacked_obs_puck_rot, rot, nr),
              prob |-> RInt(0),
              steps |-> rnd.randint,
              draws |-> 2]
        ELSE [puck |-> DequeAppend(self.stacked_obs_puck_pos, pos, np),
              rot |-> DequeAppend(self.stacked_obs_puck_rot, rot, nr),
              prob |-> FAdd(self.lose_tracking_probability,
                            self.loss_of_tracking_prob_inc_per_step),
              steps |-> self.lose_tracking_n_steps_remaining,
              draws |-> 1]

\* the tracking-loss simulator of scheme 7 (training, after the first tick)
\* pos, rot: this tick's readings; rnd.rand, rnd.randint: the random draws
track_puck(self, pos, rot, rnd) ==
    LET np == n_stacked_obs_puck_pos(self.scheme)
        nr == n_stacked_obs_puck_rot(self.scheme)
    IN  IF self.evaluate
        THEN [puck |-> DequeAppend(self.stacked_obs_puck_pos, pos, np),
              rot |-> DequeAppend(self.stacked_obs_puck_rot, rot, nr),
              prob |-> self.lose_tracking_probability,
              steps |-> self.lose_tracking_n_steps_remaining,
              draws |-> 0]
        ELSE IF self.lose_tracking_n_steps_remaining > 0
        THEN [puck |-> DequeAppend(self.stacked_obs_puck_pos,
                                   Last(self.stacked_obs_puck_pos), np),
              rot |-> DequeAppend(self.stacked_obs_puck_rot,
                                  Last(self.stacked_obs_puck_rot), nr),
              prob |-> self.lose_tracking_probability,
              steps |-> self.lose_tracking_n_steps_remaining - 1,
              draws |-> 0]
        ELSE IF RLt(rnd.rand, self.lose_tracking_probability)
        THEN [puck |-> DequeAppend(self.stacked_obs_puck_pos, pos, np),
              rot |-> DequeAppend(self.stacked_obs_puck_rot, rot, nr),
              prob |-> RInt(0),
              steps |-> rnd.randint,
              draws |-> 2]
        ELSE [puck |-> DequeAppend(self.stacked_obs_puck_pos, pos, np),
              rot |-> DequeAppend(self.stacked_obs_puck_rot, rot, nr),
              prob |-> FAdd(self.lose_tracking_probability,
                            self.loss_of_tracking_prob_inc_per_step),
              steps |-> self.lose_tracking_n_steps_remaining,
              draws |-> 1]

\* norm_xy without the clip
norm_xy_unclipped(x, y) ==
    << normalize_value(x, PuckXLow, PuckXHigh),
       normalize_value(y, PuckYLow, PuckYHigh) >>

\* np.clip(self._normalize_value(xy, puck_table_minmax...), -1.0, 1.0)
norm_xy(x, y) ==
    << Clip1(normalize_value(x, PuckXLow, PuckXHigh)),
       Clip1(normalize_value(y, PuckYLow, PuckYHigh)) >>

\* add_noise in either mode
add_noise_in_any_mode(self, value, noise) ==
    [i \in 1..Len(value) |-> value[i] + noise[i]]

\* value += np.random.normal(...), made only when not self.evaluate
add_noise(self, value, noise) ==
    IF ~self.evaluate THEN [i \in 1..Len(value) |-> value[i] + noise[i]] ELSE value

\* SpaceRAgent.process_raw_obs.  obs: the raw observation (joint_pos, the
\* forward kinematics ee_pos of it, opponent_ee, puck_pos); rnd: the values
\* np.random returns when it is called.  The result is the agent after the
\* call, the returned vector and the number of np.random calls made.
process_raw_obs(self, obs, rnd) ==
    LET train == ~self.evaluate
        current_joint_pos_normalized ==
            [i \in 1..Len(obs.joint_pos) |->
                Clip1(normalize_value(obs.joint_pos[i], JointPosLow, JointPosHigh))]
        current_ee_pos == add_noise(self, obs.ee_pos, rnd.ee)
        ee_pos_xy_norm == norm_xy(current_ee_pos[1], current_ee_pos[2])
        opponent_ee_pos_xy == add_noise(self, obs.opponent_ee, rnd.opp)
        opponent_ee_pos_xy_norm == norm_xy(opponent_ee_pos_xy[1], opponent_ee_pos_xy[2])
        puck_pos == add_noise(self, obs.puck_pos, rnd.puck)
        puck_pos_xy_norm == norm_xy(puck_pos[1], puck_pos[2])
        puck_rot_yaw_norm == << YawSin(puck_pos[3]), YawCos(puck_pos[3]) >>
        sch == self.scheme
        n_ee == n_stacked_obs_participant_ee_pos(sch)
        n_opp == n_stacked_obs_opponent_ee_pos(sch)
        n_puck == n_stacked_obs_puck_pos(sch)
        n_rot == n_stacked_obs_puck_rot(sch)
        pen == penalty_step(self, puck_pos_xy_norm[1])
        first == self.new_episode
        tracked ==
            IF sch = 7 /\ ~first
            THEN track_puck(self, puck_pos_xy_norm, puck_rot_yaw_norm, rnd)
            ELSE [puck |-> IF sch \in {2, 3, 4}
                           THEN append_and_fill(self.stacked_obs_puck_pos,
                                                puck_pos_xy_norm, n_puck)
                           ELSE extend_or_append(self, self.stacked_obs_puck_pos,
                                                 puck_pos_xy_norm, n_puck),
                  rot |-> IF sch = 7
                          THEN extend_or_append(self, self.stacked_obs_puck_rot,
                                                puck_rot_yaw_norm, n_rot)
                          ELSE self.stacked_obs_puck_rot,
                  prob |-> self.lose_tracking_probability,
                  steps |-> self.lose_tracking_n_steps_remaining,
                  draws |-> 0]
        ee_buf ==
            IF sch \in {2, 3, 4}
            THEN append_and_fill(self.stacked_obs_participant_ee_pos, ee_pos_xy_norm, n_ee)
            ELSE extend_or_append(self, self.stacked_obs_participant_ee_pos,
                                  ee_pos_xy_norm, n_ee)
        opp_buf ==
            IF sch \in {2, 3, 4}
            THEN append_and_fill(self.stacked_obs_opponent_ee_pos,
                                 opponent_ee_pos_xy_norm, n_opp)
            ELSE extend_or_append(self, self.stacked_obs_opponent_ee_pos,
                                  opponent_ee_pos_xy_norm, n_opp)
        \* np.array(deque, dtype=np.float32).flatten() in schemes 2..4
        flat32(q) == Flatten([i \in 1..Len(q) |-> <<F32(q[i][1]), F32(q[i][2])>>])
        clip_all(v) == [i \in 1..Len(v) |-> Clip1(v[i])]
        out ==
            CASE sch \in {2, 3, 4} ->
                    clip_all(<<pen.current>> \o flat32(tracked.puck)
                             \o flat32(ee_buf) \o flat32(opp_buf))
              [] sch = 5 ->
                    <<pen.current>> \o Flatten(tracked.puck)
                    \o Flatten(ee_buf) \o Flatten(opp_buf)
              [] sch = 6 ->
                    <<pen.current>> \o current_joint_pos_normalized
                    \o Flatten(tracked.puck) \o Flatten(ee_buf) \o Flatten(opp_buf)
              [] sch = 7 ->
                    <<pen.current>> \o current_joint_pos_normalized
                    \o Flatten(tracked.puck) \o Flatten(tracked.rot)
                    \o Flatten(ee_buf) \o Flatten(opp_buf)
    IN  [self |-> [self EXCEPT
                    !.current_joint_pos = obs.joint_pos,
                    !.current_ee_pos = current_ee_pos,
                    !.current_ee_pos_xy_norm = ee_pos_xy_norm,
                    !.penalty_timer = pen.timer,
                    !.penalty_side = pen.side,
                    !.stacked_obs_puck_pos = tracked.puck,
                    !.stacked_obs_puck_rot = tracked.rot,
                    !.stacked_obs_participant_ee_pos = ee_buf,
                    !.stacked_obs_opponent_ee_pos = opp_buf,
                    !.lose_tracking_probability = tracked.prob,
                    !.lose_tracking_n_steps_remaining = tracked.steps,
                    !.new_episode = IF sch \in {5, 6, 7} THEN FALSE ELSE @],
         out |-> out,
         \* the normalized values of this tick
         readings |-> [ee |-> ee_pos_xy_norm, opp |-> opponent_ee_pos_xy_norm,
                       puck |-> puck_pos_xy_norm, rot |-> puck_rot_yaw_norm],
         \* the shape assertion at the end of process_raw_obs
         assert_ok |-> (Len(out) = observation_space(self)),
         draws |-> (IF train THEN 3 ELSE 0) + tracked.draws]

\* ------------------------------------------------------------ the decoder
\* robot_joint_vel_limit_scaled with the magnitude of the limit in both rows
robot_joint_vel_limit_scaled_unsigned(row, i) ==
    IF i <= 4 THEN RInt(1) ELSE Rat(3, 2)

\* robot_joint_vel_limit_scaled[row][joint]: row 0 the lower, row 1 the upper
\* limit (vel_constraints_scaling_factor * robot_joint_vel_limit)
robot_joint_vel_limit_scaled(row, i) ==
    LET lim == IF i <= 4 THEN RInt(1) ELSE Rat(3, 2)
    IN  IF row = 0 THEN RMul(RInt(-1), lim) ELSE lim

\* filter_target seeded with the raw target on the first call of an episode
filter_target_seeded_by_action(self, action) ==
    LET previous ==
            IF self.previous_ee_pos_xy_norm = None
            THEN action
            ELSE self.previous_ee_pos_xy_norm
        c == self.filter_actions_coefficient
    IN  IF self.filter_actions_enabled
        THEN << previous,
                [i \in 1..2 |->
                    FAdd(FMul(c, previous[i]),
                         FMul(FSub(RInt(1), c), action[i]))] >>
        ELSE << None, action >>

\* filter_target with the two weights exchanged
filter_target_swapped_weights(self, action) ==
    LET previous ==
            IF self.previous_ee_pos_xy_norm = None
            THEN self.current_ee_pos_xy_norm
            ELSE self.previous_ee_pos_xy_norm
        c == self.filter_actions_coefficient
    IN  IF self.filter_actions_enabled
        THEN << previous,
                [i \in 1..2 |->
                    FAdd(FMul(FSub(RInt(1), c), previous[i]),
                         FMul(c, action[i]))] >>
        ELSE << None, action >>

\* the action filter of process_raw_act: <<previous used, filtered target>>
filter_target(self, action) ==
    LET previous ==
            IF self.previous_ee_pos_xy_norm = None
            THEN self.current_ee_pos_xy_norm
            ELSE self.previous_ee_pos_xy_norm
        c == self.filter_actions_coefficient
    IN  IF self.filter_actions_enabled
        THEN << previous,
                [i \in 1..2 |->
                    FAdd(FMul(c, previous[i]),
                         FMul(FSub(RInt(1), c), action[i]))] >>
        ELSE << None, action >>

joints_below_vel_limit(joint_vel) ==
    {i \in 1..Len(joint_vel) : RLt(joint_vel[i], robot_joint_vel_limit_scaled(0, i))}
joints_above_vel_limit(joint_vel) ==
    {i \in 1..Len(joint_vel) : RLt(robot_joint_vel_limit_scaled(1, i), joint_vel[i])}
joints_outside_vel_limit(joint_vel) ==
    joints_below_vel_limit(joint_vel) \cup joints_above_vel_limit(joint_vel)

\* 1 - (joint_vel[i] - limit) / joint_vel[i] for a joint outside its limits;
\* a division by a zero velocity gives an infinity, written <<1, 0>> or
\* <<-1, 0>>
joint_factor(joint_vel, i) ==
    LET v == joint_vel[i]
        lim == robot_joint_vel_limit_scaled(
                   IF i \in joints_above_vel_limit(joint_vel) THEN 1 ELSE 0, i)
    IN  IF v[1] = 0 THEN <<-1 * RSign(FSub(v, lim)), 0>>
        ELSE FSub(RInt(1), FDiv(FSub(v, lim), v))

\* min() of 1.0 and the factors of the joints outside their limits
downscaling_factor(joint_vel) ==
    LET fs == {RInt(1)} \cup
              {joint_factor(joint_vel, i) : i \in joints_outside_vel_limit(joint_vel)}
    IN  CHOOSE f \in fs : \A g \in fs : RLeq(f, g)

\* limit_joint_vel scaling only the joints outside their limits
limit_joint_vel_per_joint(joint_vel) ==
    IF joints_outside_vel_limit(joint_vel) # {}
    THEN LET f == downscaling_factor(joint_vel)
         IN  [i \in 1..Len(joint_vel) |->
                 IF i \in joints_outside_vel_limit(joint_vel)
                 THEN FMul(joint_vel[i], f) ELSE joint_vel[i]]
    ELSE joint_vel

\* the velocity limiting of process_raw_act
limit_joint_vel(joint_vel) ==
    IF joints_outside_vel_limit(joint_vel) # {}
    THEN LET f == downscaling_factor(joint_vel)
         IN  [i \in 1..Len(joint_vel) |-> FMul(joint_vel[i], f)]
    ELSE joint_vel

\* the target position of process_raw_act: <<filter_target, target_ee_pos>>
target_ee_pos(self, action, rnd) ==
    LET ft == filter_target(self, action)
        unnormalized ==
            << unnormalize_value(ft[2][1], EeXLow, EeXHigh),
               unnormalize_value(ft[2][2], EeYLow, EeYHigh),
               RInt(robot_ee_desired_height) >>
    IN  << ft,
           IF self.evaluate THEN unnormalized
           ELSE << FAdd(unnormalized[1], rnd.act[1]),
                   FAdd(unnormalized[2], rnd.act[2]),
                   unnormalized[3] >> >>

\* what the inverse-kinematics solve of process_raw_act reads
ik_in(self, action, rnd) ==
    << target_ee_pos(self, action, rnd)[2], self.current_ee_pos,
       self.current_joint_pos >>

\* np.array(..., dtype = action.dtype) for the dtype of the action
astype(x, dtype) == IF dtype = "float32" THEN F32(x) ELSE x

\* the target position of process_raw_act for an action of the given dtype:
\* the array is built with dtype = action.dtype and the noise is added to it
target_ee_pos_cast(self, action, dtype, rnd) ==
    LET ft == filter_target(self, action)
        unnormalized ==
            << astype(unnormalize_value(ft[2][1], EeXLow, EeXHigh), dtype),
               astype(unnormalize_value(ft[2][2], EeYLow, EeYHigh), dtype),
               astype(RInt(robot_ee_desired_height), dtype) >>
    IN  << ft,
           IF self.evaluate THEN unnormalized
           ELSE << astype(FAdd(unnormalized[1], rnd.act[1]), dtype),
                   astype(FAdd(unnormalized[2], rnd.act[2]), dtype),
                   unnormalized[3] >> >>

\* SpaceRAgent.process_raw_act.  action: the normalized target; rnd.act: the
\* value np.random returns; joint_vel: the velocity the weighted
\* pseudo-inverse solve proposes for target_ee_pos - current_ee_pos and the
\* Jacobian of current_joint_pos.
process_raw_act(self, action, rnd, joint_vel) ==
    LET ft == target_ee_pos(self, action, rnd)[1]
        target_ee_pos_xy == ft[2]
        vel == limit_joint_vel(joint_vel)
        dt == F64(Rat(self.sim_dt, 10))
        joint_pos ==
            [i \in 1..Len(vel) |->
                FAdd(RInt(self.current_joint_pos[i]), FMul(dt, vel[i]))]
    IN  [self |-> [self EXCEPT
                    !.previous_ee_pos_xy_norm =
                        IF self.filter_actions_enabled THEN target_ee_pos_xy ELSE @],
         out |-> << joint_pos, vel >>,
         previous |-> ft[1],
         filtered |-> target_ee_pos_xy,
         proposed |-> joint_vel,
         draws |-> IF self.evaluate THEN 0 ELSE 1]

\* infer_action without the clip of the policy's output
infer_action_unclipped(self, policy_out, dtype, rnd, joint_vel) ==
    [res |-> process_raw_act(self, policy_out, rnd, joint_vel),
     action |-> policy_out,
     target |-> target_ee_pos_cast(self, policy_out, dtype, rnd)[2]]

\* SpaceRAgent.infer_action: the policy's output, clipped to [-1, 1], goes
\* to process_raw_act; target is the position handed to the solve
infer_action(self, policy_out, dtype, rnd, joint_vel) ==
    LET action == [i \in 1..2 |-> Clip1(policy_out[i])]
    IN  [res |-> process_raw_act(self, action, rnd, joint_vel),
         action |-> action,
         target |-> target_ee_pos_cast(self, action, dtype, rnd)[2]]

\* ------------------------------------------------------------ the reward
\* rewards.py: lengths in millimetres (world frame, origin at the table
\* centre), speeds in millimetres per second, rewards as rationals
TournamentReward_MAX_TIME_UNTIL_PENALTY_S == 150
\* env_info["table"]["length"] and ["goal_width"]
TableLength == 1948
GoalWidth == 250
\* the centre strip and the speed below which the puck counts as stuck
StuckHalfWidth == 150
StuckSpeed == 25

Sign(x) == IF x > 0 THEN 1 ELSE IF x < 0 THEN -1 ELSE 0

\* TournamentReward.__init__
TournamentReward(score_goal, receive_goal, opponent_faul, agent_faul, cause_puck_stuck) ==
    [reward_agent_score_goal |-> score_goal,
     reward_agent_receive_goal |-> receive_goal,
     reward_opponent_faul |-> opponent_faul,
     reward_agent_faul |-> agent_faul,
     reward_agent_cause_puck_stuck |-> cause_puck_stuck,
     penalty_threshold |-> Rat(3 * TournamentReward_MAX_TIME_UNTIL_PENALTY_S, 4),
     penalty_timer |-> 0,
     penalty_side |-> None]

\* reward_penalty_update keeping the timer running when the side changes
reward_penalty_update_keeping_timer(self, s, dt) ==
    LET side == IF self.penalty_side = None THEN <<s>> ELSE self.penalty_side
    IN  IF s = side[1] THEN << side, self.penalty_timer + dt >>
        ELSE << <<-1 * side[1]>>, self.penalty_timer + dt >>

\* the timer update of __call__: <<penalty_side, penalty_timer>> after it
reward_penalty_update(self, s, dt) ==
    LET side == IF self.penalty_side = None THEN <<s>> ELSE self.penalty_side
    IN  IF s = side[1] THEN << side, self.penalty_timer + dt >>
        ELSE << <<-1 * side[1]>>, 0 >>

\* puck_stuck for a puck at rest only
puck_stuck_only_at_rest(puck_pos, puck_vel) ==
    Abs(puck_pos[1]) < StuckHalfWidth /\ puck_vel[1] = 0

\* np.abs(puck_pos[0]) < 0.15 and np.abs(puck_vel[0]) < 0.025
puck_stuck(puck_pos, puck_vel) ==
    Abs(puck_pos[1]) < StuckHalfWidth /\ Abs(puck_vel[1]) < StuckSpeed

\* episode_end holding on every call
episode_end_on_every_call(absorbing, time, dt) == TRUE

\* absorbing or mdp._data.time < mdp.env_info["dt"] * 2
episode_end(absorbing, time, dt) == absorbing \/ time < dt * 2

\* end_of_episode leaving the timer and the side as they are
end_of_episode_keeping_timer(self) == self

\* the reset of the timer and the side at the end of the episode block
end_of_episode(self) == [self EXCEPT !.penalty_timer = 0, !.penalty_side = None]

\* goal_check giving way to a fault or stuck reward other than 0
goal_check_after_others(self, puck_pos, r) ==
    IF r # RInt(0) THEN r
    ELSE IF 2 * Abs(puck_pos[2]) - GoalWidth <= 0
    THEN IF 2 * puck_pos[1] > TableLength
         THEN self.reward_agent_score_goal
         ELSE IF 2 * puck_pos[1] < -TableLength
              THEN self.reward_agent_receive_goal
              ELSE r
    ELSE r

\* the goal checking of __call__: the goal reward, else the reward r so far
goal_check(self, puck_pos, r) ==
    IF 2 * Abs(puck_pos[2]) - GoalWidth <= 0
    THEN IF 2 * puck_pos[1] > TableLength
         THEN self.reward_agent_score_goal
         ELSE IF 2 * puck_pos[1] < -TableLength
              THEN self.reward_agent_receive_goal
              ELSE r
    ELSE r

\* TournamentReward.__call__.  puck_pos, puck_vel: mdp.get_puck(next_state);
\* dt: mdp.env_info["dt"]; time: mdp._data.time.  The result is the instance
\* after the call, the returned reward, the exception raised if any, and the
\* timer state the episode-end block read.
TournamentReward_call(self, puck_pos, puck_vel, dt, absorbing, time) ==
    LET u == reward_penalty_update(self, Sign(puck_pos[1]), dt)
        side == u[1][1]
        timer == u[2]
        updated == [self EXCEPT !.penalty_side = u[1], !.penalty_timer = timer]
        fault == /\ RLt(self.penalty_threshold, RInt(timer))
                 /\ Abs(puck_pos[1]) >= StuckHalfWidth
        r_fault ==
            IF ~fault THEN RInt(0)
            ELSE IF side = -1 THEN self.reward_agent_faul
            ELSE self.reward_opponent_faul
        r_stuck ==
            IF puck_stuck(puck_pos, puck_vel)
            THEN self.reward_agent_cause_puck_stuck
            ELSE r_fault
        r_goal == goal_check(self, puck_pos, r_stuck)
        read == [side |-> u[1], timer |-> timer]
    IN  IF ~episode_end(absorbing, time, dt)
        THEN [self |-> updated, r |-> RInt(0), error |-> None, read |-> read]
        ELSE IF fault /\ side \notin {-1, 1}
        THEN [self |-> updated, r |-> None, read |-> read,
              error |-> <<"ValueError", "Penalty side should be either -1 or 1">>]
        ELSE [self |-> end_of_episode(updated),
              r |-> r_goal, error |-> None, read |-> read]

\* ------------------------------------------------------------ the solve
\* float64 values that are not numbers: the infinity 1 / 0 and the NaN
\* inf / inf, written with a zero denominator
Infinity == <<1, 0>>
NaN == <<0, 0>>
IsFinite(x) == x[2] # 0
z_position_control_tolerance == F64(Rat(7, 20))

\* s = 1 / s; s = s / np.sum(s) for the singular values s of the Jacobian,
\* after s[:2] = np.mean(s[:2]) and s[2] *= z_position_control_tolerance
svd_weights(s) ==
    LET m == FDiv(FAdd(s[1], s[2]), RInt(2))
        scaled == << m, m, FMul(s[3], z_position_control_tolerance) >>
        inv == [j \in 1..3 |->
                   IF scaled[j] = RInt(0) THEN Infinity
                   ELSE FDiv(RInt(1), scaled[j])]
        total == IF \E j \in 1..3 : inv[j] = Infinity THEN Infinity
                 ELSE FAdd(FAdd(inv[1], inv[2]), inv[3])
    IN  [j \in 1..3 |->
            IF total = Infinity
            THEN IF inv[j] = Infinity THEN NaN ELSE RInt(0)
            ELSE FDiv(inv[j], total)]

\* np.average(a, weights = w) of one row a: the exception it raises when
\* the weights sum to zero, else the weighted mean
np_average(a, w) ==
    LET nan == \E j \in 1..3 : ~IsFinite(w[j])
        scl == IF nan THEN NaN ELSE FAdd(FAdd(w[1], w[2]), w[3])
    IN  IF scl = RInt(0)
        THEN [error |-> <<"ZeroDivisionError", "Weights sum to zero, can't be normalized">>,
              value |-> None]
        ELSE IF nan THEN [error |-> None, value |-> NaN]
        ELSE [error |-> None,
              value |-> FDiv(FAdd(FAdd(FMul(a[1], w[1]), FMul(a[2], w[2])),
                                  FMul(a[3], w[3])), scl)]

\* joint_disp = np.average(jac_pinv * target_ee_disp, axis = 1, weights = w)
\* and joint_vel = joint_disp / sim_dt, for the weights w
weighted_solve(self, target, jac_pinv, w) ==
    LET target_ee_disp == [j \in 1..3 |-> FSub(target[j], RInt(self.current_ee_pos[j]))]
        joint_disp(i) ==
            np_average([j \in 1..3 |-> FMul(jac_pinv[i][j], target_ee_disp[j])], w)
        dt == F64(Rat(self.sim_dt, 10))
    IN  IF joint_disp(1).error # None
        THEN [error |-> joint_disp(1).error, joint_vel |-> None]
        ELSE [error |-> None,
              joint_vel |-> [i \in 1..NJoints |->
                                IF IsFinite(joint_disp(i).value)
                                THEN FDiv(joint_disp(i).value, dt)
                                ELSE NaN]]

\* the inverse-Jacobian solve of process_raw_act.  jac_pinv: np.linalg.pinv
\* of the Jacobian (7 rows of 3); s: its singular values, largest first.
inverse_jacobian(self, target, jac_pinv, s) ==
    CHOOSE sol \in {weighted_solve(self, target, jac_pinv, w) : w \in {svd_weights(s)}} :
        TRUE

\* the command process_raw_act returns for the solution sol, res being the
\* limiting of a solution that is a number in every joint.  A comparison
\* with NaN is false, so a NaN velocity passes the limiter and makes the
\* joint position NaN.
solved_command(sol, finite, res) ==
    LET nans == [i \in 1..NJoints |-> NaN]
    IN  IF sol.error # None
        THEN [self |-> res.self, error |-> sol.error, out |-> None,
              previous |-> res.previous, filtered |-> res.filtered,
              proposed |-> None, draws |-> res.draws]
        ELSE [self |-> res.self, error |-> None,
              out |-> IF finite THEN res.out ELSE <<nans, nans>>,
              previous |-> res.previous, filtered |-> res.filtered,
              proposed |-> sol.joint_vel, draws |-> res.draws]

\* process_raw_act from the solution sol of the solve on
limit_solution(self, action, rnd, sol) ==
    LET finite == sol.error = None /\ \A i \in 1..NJoints : IsFinite(sol.joint_vel[i])
    IN  CHOOSE cmd \in
            {solved_command(sol, finite, res) :
                res \in {process_raw_act(self, action, rnd,
                                         IF finite THEN sol.joint_vel
                                         ELSE [i \in 1..NJoints |-> RInt(0)])}} : TRUE

\* SpaceRAgent.process_raw_act with the solve computed from the Jacobian
process_raw_act_solving(self, action, rnd, jac_pinv, s) ==
    CHOOSE cmd \in
        {limit_solution(self, action, rnd, sol) :
            sol \in {inverse_jacobian(self, target_ee_pos(self, action, rnd)[2],
                                      jac_pinv, s)}} : TRUE

\* ------------------------------------------------------------ the shapers
\* HitReward, DefendReward and PrepareReward.  Lengths in millimetres in
\* the world frame, speeds in millimetres per second, joint positions in
\* radians, rewards as rationals in the units of the code (metres).
\* env_info["table"]["width"], ["puck"]["radius"] and ["mallet"]["radius"]
TableWidth == 1064
PuckRadius == 32
MalletRadius == 48
\* the margin 5e-3 of _has_hit
HitMargin == 5
\* goal = np.array([0.98, 0])
HitGoal == <<980, 0>>

RDiv(a, b) == Rat(a[1] * b[2], a[2] * b[1])
RAbs(a) == <<Abs(a[1]), a[2]>>
RMax(a, b) == IF RLt(a, b) THEN b ELSE a
Metres(x) == Rat(x, 1000)
\* np.clip(x, 0, 1)
Clip01(a) == IF RLt(a, RInt(0)) THEN RInt(0) ELSE IF RLt(RInt(1), a) THEN RInt(1) ELSE a
\* np.copysign(m, x) for a magnitude m and a number x that is not -0.0
copysign(m, x) == IF x[1] < 0 THEN RSub(RInt(0), m) ELSE m

\* the largest k in lo..hi with k * k <= n
RECURSIVE Root(_, _, _)
Root(n, lo, hi) ==
    IF lo >= hi THEN lo
    ELSE LET mid == (lo + hi + 1) \div 2
         IN  IF mid * mid <= n THEN Root(n, mid, hi) ELSE Root(n, lo, mid - 1)
IRoot(n) == Root(n, 0, IF n < 46340 THEN n ELSE 46340)

RECURSIVE SumSq(_)
SumSq(v) == IF v = <<>> THEN RInt(0) ELSE RAdd(RMul(Head(v), Head(v)), SumSq(Tail(v)))

\* np.linalg.norm(v) of a vector of rationals: the root of the sum of the
\* squares where it is rational, else the root rounded down to 1/64 (to a
\* whole number for a sum above 500000)
np_linalg_norm(v) ==
    CHOOSE r \in { (LET n == s[1]
                        d == s[2]
                        rn == IRoot(n)
                        rd == IRoot(d)
                    IN  IF rn * rn = n /\ rd * rd = d THEN Rat(rn, rd)
                        ELSE IF n <= 500000 THEN Rat(IRoot((n * 4096) \div d), 64)
                        ELSE RInt(IRoot(n \div d))) : s \in {SumSq(v)} } : TRUE

VSub(a, b) == [i \in 1..Len(a) |-> RSub(a[i], b[i])]
Dot(a, b) == RAdd(RMul(a[1], b[1]), RMul(a[2], b[2]))
RVec(p) == [i \in 1..Len(p) |-> RInt(p[i])]

\* mdp.init_state
init_state == <<RInt(0), Rat(-1, 5), RInt(0), Rat(-3, 2), RInt(0), Rat(3, 2), RInt(0)>>

\* HitReward.__init__, DefendReward.__init__, PrepareReward.__init__
Shaper(kind) == [kind |-> kind, has_hit |-> FALSE]

\* _has_hit(mdp, state).  ee_pos: mdp.get_ee()[0][:2]; puck_cur_pos:
\* mdp.get_puck(state)[0][:2]
_has_hit(ee_pos, puck_cur_pos) ==
    RLt(np_linalg_norm(VSub(RVec(ee_pos), RVec(puck_cur_pos))),
        RInt(PuckRadius + MalletRadius + HitMargin))

\* hit_latch following the distance of the call
hit_latch_following_distance(has_hit, ee_pos, puck_cur_pos) ==
    _has_hit(ee_pos, puck_cur_pos)

\* if not self.has_hit: self.has_hit = _has_hit(mdp, state)
hit_latch(has_hit, ee_pos, puck_cur_pos) ==
    IF ~has_hit THEN _has_hit(ee_pos, puck_cur_pos) ELSE has_hit

\* hit_terminal_reward for a puck in the goal band on either half
hit_terminal_reward_on_either_half(puck_pos) ==
    IF 2 * Abs(puck_pos[2]) - GoalWidth < 0 THEN RInt(50) ELSE RInt(0)

\* the reward of HitReward on an episode end: 50 if the hit scores
hit_terminal_reward(puck_pos) ==
    IF 2 * puck_pos[1] - TableLength > 0 /\ 0 > 2 * Abs(puck_pos[2]) - GoalWidth
    THEN RInt(50)
    ELSE RInt(0)

\* the reward of HitReward before the hit: -dist_ee_puck / 2 +
\* (cos_ang - 1) * 0.5 in float64, NaN where a direction has no length
hit_approach_reward(ee_pos, puck_pos) ==
    LET puck == RVec(puck_pos)
        to_goal == VSub(RVec(HitGoal), puck)
        n_goal == np_linalg_norm(to_goal)
        effective_width == TableWidth \div 2 - PuckRadius
        w_den == Abs(puck_pos[2]) + HitGoal[2] - 2 * effective_width
        w == Rat(Abs(puck_pos[2]) * HitGoal[1] + HitGoal[2] * puck_pos[1]
                 - effective_width * puck_pos[1] - effective_width * HitGoal[1],
                 w_den)
        side_point == <<w, copysign(RInt(effective_width), puck[2])>>
        to_side == VSub(side_point, puck)
        n_side == np_linalg_norm(to_side)
        to_puck == VSub(puck, RVec(ee_pos))
        dist_ee_puck == np_linalg_norm(to_puck)
    IN  IF w_den = 0 \/ n_goal[1] = 0 \/ n_side[1] = 0 \/ dist_ee_puck[1] = 0
        THEN NaN
        ELSE LET cos_ang_side == Clip01(FDiv(Dot(to_side, to_puck), RMul(n_side, dist_ee_puck)))
                 cos_ang_goal == Clip01(FDiv(Dot(to_goal, to_puck), RMul(n_goal, dist_ee_puck)))
                 cos_ang == RMax(cos_ang_goal, cos_ang_side)
             IN  FAdd(FDiv(FSub(RInt(0), FDiv(dist_ee_puck, RInt(1000))), RInt(2)),
                      FMul(FSub(cos_ang, RInt(1)), Rat(1, 2)))

\* the reward of HitReward after the hit
hit_follow_reward(puck_pos, puck_vel, q) ==
    LET forward == RMul(Rat(3, 10), RMax(Metres(puck_vel[1]), RInt(0)))
        r0 == IF RLt(RInt(1), forward) THEN RInt(1) ELSE forward
        r1 == IF puck_pos[1] > 700 /\ puck_vel[1] > 100
              THEN RAdd(r0, RSub(Rat(1, 2), Metres(Abs(puck_pos[2]))))
              ELSE r0
    IN  RSub(r1, RMul(Rat(1, 100), np_linalg_norm(VSub(q, init_state))))

\* HitReward.__call__.  ee_pos: mdp.get_ee(); puck_cur_pos: mdp.get_puck(state);
\* puck_pos, puck_vel: mdp.get_puck(next_state); q: mdp.get_joints(next_state)
HitReward_call(self, ee_pos, puck_cur_pos, puck_pos, puck_vel, q, dt, absorbing, time) ==
    LET has_hit == hit_latch(self.has_hit, ee_pos, puck_cur_pos)
    IN  IF episode_end(absorbing, time, dt)
        THEN [self |-> [self EXCEPT !.has_hit = FALSE],
              r |-> hit_terminal_reward(puck_pos)]
        ELSE [self |-> [self EXCEPT !.has_hit = has_hit],
              r |-> IF ~has_hit THEN hit_approach_reward(ee_pos, puck_pos)
                    ELSE hit_follow_reward(puck_pos, puck_vel, q)]

\* defend_base_reward looking at the speed before the goal
defend_base_reward_stop_first(puck_pos, puck_vel) ==
    IF Abs(puck_vel[1]) < 100 THEN RInt(150)
    ELSE IF 2 * puck_pos[1] + TableLength < 0 /\ 2 * Abs(puck_pos[2]) - GoalWidth < 0
    THEN RInt(-100)
    ELSE RInt(0)

\* the reward of DefendReward on an absorbing call, before the penalty
defend_base_reward(puck_pos, puck_vel) ==
    IF 2 * puck_pos[1] + TableLength < 0 /\ 2 * Abs(puck_pos[2]) - GoalWidth < 0
    THEN RInt(-100)
    ELSE IF Abs(puck_vel[1]) < 100 THEN RInt(150)
    ELSE RInt(0)

\* the reward of DefendReward on any other call, before the penalty
defend_shaping_reward(ee_pos, puck_pos, puck_vel) ==
    IF puck_pos[1] <= -850 \/ puck_vel[1] > 300 THEN RInt(-1)
    ELSE IF puck_vel[1] > -200 THEN RSub(Rat(3, 10), Metres(Abs(puck_vel[1])))
    ELSE RSub(RInt(0),
              RDiv(np_linalg_norm(VSub(RVec(<<-600, puck_pos[2]>>), RVec(ee_pos))),
                   RInt(1000)))

\* r -= 0.005 * np.linalg.norm(q - mdp.init_state)
joint_penalty(r, q) ==
    RSub(r, RMul(Rat(5, 1000), np_linalg_norm(VSub(q, init_state))))

\* DefendReward.__call__
DefendReward_call(self, ee_pos, puck_cur_pos, puck_pos, puck_vel, q, dt, absorbing, time) ==
    LET cleared == IF episode_end(absorbing, time, dt) THEN FALSE ELSE self.has_hit
        has_hit == hit_latch(cleared, ee_pos, puck_cur_pos)
        base == IF absorbing THEN defend_base_reward(puck_pos, puck_vel)
                ELSE defend_shaping_reward(ee_pos, puck_pos, puck_vel)
    IN  [self |-> [self EXCEPT !.has_hit = has_hit],
         r |-> joint_penalty(base, q)]

\* the reward of PrepareReward before the hit in float64, NaN where the
\* end-effector is on the puck
prepare_approach_reward(ee_pos, puck_pos) ==
    LET puck == RVec(puck_pos)
        to_puck == VSub(puck, RVec(ee_pos))
        dist_ee_puck == np_linalg_norm(to_puck)
    IN  IF dist_ee_puck[1] = 0 THEN NaN
        ELSE LET vec_ee_puck == <<FDiv(to_puck[1], dist_ee_puck), FDiv(to_puck[2], dist_ee_puck)>>
                 cos_ang ==
                     IF puck_pos[1] > -650
                     THEN Clip01(Dot(vec_ee_puck, <<RInt(0), copysign(RInt(1), puck[2])>>))
                     ELSE RMax(Clip01(Dot(vec_ee_puck,
                                          <<copysign(Rat(1, 20), RInt(-500 - puck_pos[1])),
                                            copysign(Rat(4, 5), puck[2])>>)),
                               Clip01(Dot(vec_ee_puck, <<RInt(-1), RInt(0)>>)))
             IN  FAdd(FDiv(FSub(RInt(0), FDiv(dist_ee_puck, RInt(1000))), RInt(2)),
                      FMul(FSub(cos_ang, RInt(1)), Rat(1, 2)))

\* the reward of PrepareReward after the hit
prepare_follow_reward(puck_pos, q) ==
    LET r == IF -500 < puck_pos[1] /\ puck_pos[1] < -200 /\ puck_pos[2] < 300
             THEN RAdd(Clip01(RDiv(Metres(Abs(-500 - puck_pos[1])), RInt(2))),
                       RSub(Rat(3, 10), Metres(Abs(puck_pos[2]))))
             ELSE RInt(0)
    IN  joint_penalty(r, q)

\* PrepareReward.__call__
PrepareReward_call(self, ee_pos, puck_cur_pos, puck_pos, puck_vel, q, dt, absorbing, time) ==
    LET cleared == IF episode_end(absorbing, time, dt) THEN FALSE ELSE self.has_hit
        has_hit == hit_latch(cleared, ee_pos, puck_cur_pos)
    IN  [self |-> [self EXCEPT !.has_hit = has_hit],
         r |-> IF absorbing /\ Abs(puck_pos[2]) < 300
                  /\ -800 < puck_pos[1] /\ puck_pos[1] < -200
               THEN RInt(10)
               ELSE IF absorbing THEN RInt(-10)
               ELSE IF ~has_hit THEN prepare_approach_reward(ee_pos, puck_pos)
               ELSE prepare_follow_reward(puck_pos, q)]

\* the call of the shaper self by its kind
Shaper_call(self, ee_pos, puck_cur_pos, puck_pos, puck_vel, q, dt, absorbing, time) ==
    IF self.kind = "Hit"
    THEN HitReward_call(self, ee_pos, puck_cur_pos, puck_pos, puck_vel, q, dt, absorbing, time)
    ELSE IF self.kind = "Defend"
    THEN DefendReward_call(self, ee_pos, puck_cur_pos, puck_pos, puck_vel, q, dt, absorbing, time)
    ELSE PrepareReward_call(self, ee_pos, puck_cur_pos, puck_pos, puck_vel, q, dt, absorbing, time)

\* ------------------------------------------------------------ inputs
MaxTicks == 3
MaxActs == 2
MaxEpisodes == 1

RawObsA ==
    [joint_pos |-> <<0, 0, 0, 0, 0, 0, 0>>, ee_pos |-> <<5, -1, 0>>,
     opponent_ee |-> <<13, 1>>, puck_pos |-> <<3, -1, 0>>]
RawObsB ==
    [joint_pos |-> <<-3, -2, -1, 0, 1, 2, 3>>, ee_pos |-> <<-1, 5, 1>>,
     opponent_ee |-> <<17, -5>>, puck_pos |-> <<17, 5, 1>>]
RawObsC ==
    [joint_pos |-> <<1, 1, 0, 0, -1, -1, 2>>, ee_pos |-> <<3, 2, 0>>,
     opponent_ee |-> <<11, 0>>, puck_pos |-> <<8, 0, 3>>]
RawObs == {RawObsA, RawObsB, RawObsC}

\* what np.random returns in one call of a method
NoRnd ==
    [ee |-> <<0, 0, 0>>, opp |-> <<0, 0>>, puck |-> <<0, 0, 0>>,
     rand |-> RInt(0), randint |-> 1, act |-> <<RInt(0), RInt(0)>>]
SomeRnd ==
    [ee |-> <<2, -2, 1>>, opp |-> <<-2, 2>>, puck |-> <<-2, 2, 1>>,
     rand |-> Rat(3, 4), randint |-> 2, act |-> <<Rat(1, 8), Rat(-1, 8)>>]
Noises == {NoRnd, SomeRnd}
Rands == {RInt(0), Rat(3, 4)}
\* the draws a call of process_raw_obs can make in the state of self
RndObs(self) ==
    LET tracking == self.scheme = 7 /\ ~self.new_episode
                    /\ self.lose_tracking_n_steps_remaining = 0
        steps == self.loss_of_tracking_min_steps..(self.loss_of_tracking_max_steps - 1)
    IN  IF self.evaluate THEN {NoRnd}
        ELSE {[NoRnd EXCEPT !.ee = n.ee, !.opp = n.opp, !.puck = n.puck,
                            !.rand = r, !.randint = k] :
                n \in Noises,
                r \in IF tracking THEN Rands ELSE {RInt(0)},
                k \in IF tracking THEN steps ELSE {1}}
\* the draws a call of process_raw_act can make in the state of self
RndAct(self) == IF self.evaluate THEN {NoRnd} ELSE Noises

\* normalized targets of the policy, clipped to [-1, 1]
Targets == {<<RInt(-1), RInt(1)>>, <<Rat(1, 4), Rat(-1, 2)>>}

\* joint velocities proposed by the inverse-kinematics solve
JointVels ==
    {[i \in 1..NJoints |-> RInt(0)],
     <<Rat(1, 2), RInt(-1), RInt(1), RInt(0), Rat(3, 2), Rat(-3, 2), Rat(1, 4)>>,
     <<Rat(7, 2), RInt(0), Rat(1, 2), Rat(-1, 2), RInt(0), RInt(1), RInt(-1)>>,
     <<RInt(-3), RInt(2), Rat(1, 2), RInt(0), RInt(5), Rat(-1, 4), RInt(1)>>}

\* ------------------------------------------------------------ state
VARIABLES
    agent,      \* the SpaceRAgent instance
    twin,       \* a second instance built from the same arguments
    obs_out,    \* what the last process_raw_obs of agent returned
    act_out,    \* what the last process_raw_act of agent computed
    twin_out,   \* <<obs_out, act_out>> of twin
    assert_ok,  \* the shape assertion of process_raw_obs has never failed
    rng_draws,  \* np.random has been called by a method of agent
    ticks,      \* process_raw_obs calls of agent since the last reset
    acts,       \* process_raw_act calls of agent since the last reset
    episodes,   \* reset() calls made by the caller
    hist,       \* per tick since the last reset: the normalized readings
    last,       \* the last method called on agent
    error,      \* the exception the last call raised, None when it returned
    reward,     \* the TournamentReward instance
    reward_out, \* what the last call of reward computed
    calls,      \* the calls made so far, with their arguments
    np_random,  \* the position of the process-wide np.random stream
    solo,       \* agent and twin as they would be, each run on its own
    value_out   \* what the last call of a helper computed

vars == <<agent, twin, obs_out, act_out, twin_out, assert_ok, rng_draws,
          ticks, acts, episodes, hist, last,
          error, reward, reward_out, calls, np_random, solo, value_out>>

\* the state outside the two agents and their bookkeeping
others == <<error, reward, reward_out, calls, np_random, solo, value_out>>

\* constructor arguments: <<filter_actions_enabled, filter_actions_coefficient>>
DefaultFilter == <<TRUE, Rat(3, 4)>>
Filters == {<<FALSE, Rat(3, 4)>>, DefaultFilter, <<TRUE, RInt(0)>>, <<TRUE, RInt(1)>>}
\* env_info["dt"], in tenths of a second
LongDts == {100}
ShortDts == {1}

InitAgent(schemes, trains, filters, dts) ==
    /\ \E sc \in schemes, tr \in trains, f \in filters, dt \in dts :
          agent = SpaceRAgent(sc, tr, f[1], f[2], dt, Rat(1, 2), 1, 3)
    /\ twin = agent
    /\ obs_out = None
    /\ act_out = None
    /\ twin_out = <<None, None>>
    /\ assert_ok = TRUE
    /\ rng_draws = FALSE
    /\ ticks = 0
    /\ acts = 0
    /\ episodes = 0
    /\ hist = <<>>
    /\ last = "init"

InitOthers ==
    /\ error = None
    /\ reward = None
    /\ reward_out = None
    /\ calls = <<>>
    /\ np_random = 0
    /\ solo = None
    /\ value_out = None

InitWith(schemes, trains, filters, dts) ==
    InitAgent(schemes, trains, filters, dts) /\ InitOthers

Init == InitWith(Schemes, BOOLEAN, {DefaultFilter}, LongDts)

\* the caller resets the agent at an episode boundary
CallReset(self) == reset(self)

\* what a call of process_raw_obs returns, None when its assertion fails
ObsOut(res) == IF res.assert_ok THEN res.out ELSE None

\* what a call of process_raw_act computes
ActOut(res, a) ==
    [out |-> res.out, previous |-> res.previous, filtered |-> res.filtered,
     action |-> a, proposed |-> res.proposed]

\* one tick's normalized readings and the timer state it leaves
HistEntry(res) ==
    [ee |-> res.readings.ee, opp |-> res.readings.opp, puck |-> res.readings.puck,
     rot |-> res.readings.rot, side |-> res.self.penalty_side,
     timer |-> res.self.penalty_timer]

AgentReset ==
    /\ episodes < MaxEpisodes
    /\ agent' = CallReset(agent)
    /\ episodes' = episodes + 1
    /\ ticks' = 0
    /\ acts' = 0
    /\ hist' = <<>>
    /\ last' = "reset"
    /\ UNCHANGED <<obs_out, act_out, assert_ok, rng_draws>>

AgentObs(o, r, max) ==
    \E res \in {process_raw_obs(agent, o, r)} :
        /\ ticks < max
        /\ agent' = res.self
        /\ obs_out' = ObsOut(res)
        /\ assert_ok' = (assert_ok /\ res.assert_ok)
        /\ rng_draws' = (rng_draws \/ res.draws > 0)
        /\ ticks' = ticks + 1
        /\ hist' = Append(hist, HistEntry(res))
        /\ last' = "obs"
        /\ UNCHANGED <<act_out, acts, episodes>>

AgentAct(a, r, v, max) ==
    /\ agent.current_ee_pos # None
    /\ acts < max
    /\ \E res \in {process_raw_act(agent, a, r, v)} :
        /\ agent' = res.self
        /\ act_out' = ActOut(res, a)
        /\ rng_draws' = (rng_draws \/ res.draws > 0)
        /\ acts' = acts + 1
        /\ last' = "act"
        /\ UNCHANGED <<obs_out, assert_ok, ticks, episodes, hist>>

TwinIdle == UNCHANGED <<twin, twin_out>>
OthersIdle == UNCHANGED others

Reset == AgentReset /\ TwinIdle /\ OthersIdle

ProcessRawObs ==
    \E o \in RawObs, r \in RndObs(agent) : AgentObs(o, r, MaxTicks) /\ TwinIdle /\ OthersIdle

\* the encoder: every scheme, both modes
Next == Reset \/ ProcessRawObs

Spec == Init /\ [][Next]_vars

\* ------------------------------------------------------------ the timer
\* the penalty timer over longer episodes, at dt = 0.1 s
MaxTimerTicks == 5
InitTimer == InitWith(3..7, {FALSE}, {DefaultFilter}, ShortDts)
TimerObs == \E o \in RawObs : AgentObs(o, NoRnd, MaxTimerTicks) /\ TwinIdle /\ OthersIdle
NextTimer == Reset \/ TimerObs
SpecTimer == InitTimer /\ [][NextTimer]_vars

\* ------------------------------------------------------------ the decoder
\* evaluation with every filter setting, training with the default one
MaxDecoderTicks == 1
DecoderInputs ==
    {<<a, v>> \in Targets \X JointVels :
        /\ (a[1] = RInt(-1)) = (v[1] \in {Rat(1, 2), RInt(-3)})
        /\ \E i \in 1..NJoints : v[i] # RInt(0)}
InitDecoder ==
    \/ InitWith({7}, {FALSE}, Filters, LongDts)
    \/ InitWith({7}, {TRUE}, {DefaultFilter}, LongDts)
DecoderObs ==
    \E o \in {RawObsA, RawObsB}, r \in RndObs(agent) :
        AgentObs(o, r, MaxDecoderTicks) /\ TwinIdle /\ OthersIdle
ProcessRawAct ==
    \E in \in DecoderInputs, r \in RndAct(agent) :
        AgentAct(in[1], r, in[2], MaxActs) /\ TwinIdle /\ OthersIdle
NextDecoder == Reset \/ DecoderObs \/ ProcessRawAct
SpecDecoder == InitDecoder /\ [][NextDecoder]_vars

\* ------------------------------------------------------------ the limiter
\* the velocity limiting over many proposals of the solve: joint j moves at
\* a, the other joints at b
LimitVels ==
    {[i \in 1..NJoints |-> IF i = j THEN a ELSE b] :
        j \in 1..NJoints,
        a \in {RInt(0), RInt(-3), Rat(7, 2), Rat(5, 4), RInt(64)},
        b \in {RInt(0), Rat(1, 2)}}
InitLimit == InitWith({7}, {FALSE}, {DefaultFilter}, LongDts)
LimitObs ==
    \E o \in {RawObsA, RawObsB} :
        AgentObs(o, NoRnd, MaxDecoderTicks) /\ TwinIdle /\ OthersIdle
LimitAct ==
    \E a \in Targets, v \in LimitVels :
        AgentAct(a, NoRnd, v, MaxActs) /\ TwinIdle /\ OthersIdle
NextLimit == LimitObs \/ LimitAct
SpecLimit == InitLimit /\ [][NextLimit]_vars

\* ------------------------------------------------------------ the solve
\* process_raw_act over Jacobians of full and of deficient rank
PseudoInverses ==
    {[i \in 1..NJoints |-> <<Rat(1, 2), RInt(0), Rat(-1, 4)>>],
     [i \in 1..NJoints |-> IF i <= 3 THEN <<RInt(1), RInt(-1), Rat(1, 2)>>
                           ELSE <<RInt(0), RInt(2), RInt(0)>>]}
SingularValues ==
    {<<RInt(2), RInt(1), RInt(1)>>, <<RInt(4), RInt(2), Rat(1, 2)>>,
     <<RInt(4), RInt(4), RInt(1)>>, <<RInt(2), RInt(1), RInt(0)>>,
     <<RInt(1), RInt(0), RInt(0)>>, <<RInt(0), RInt(0), RInt(0)>>}
InitSolve == InitWith({7}, {FALSE}, Filters, LongDts)
SolveObs ==
    /\ error = None
    /\ \E o \in {RawObsA, RawObsB} :
          AgentObs(o, NoRnd, MaxDecoderTicks) /\ TwinIdle /\ OthersIdle
SolveAct ==
    /\ error = None
    /\ agent.current_ee_pos # None
    /\ acts < MaxActs
    /\ \E a \in Targets, jac_pinv \in PseudoInverses, s \in SingularValues :
         \E res \in {process_raw_act_solving(agent, a, NoRnd, jac_pinv, s)} :
             /\ agent' = res.self
             /\ error' = res.error
             /\ act_out' = ActOut(res, a)
             /\ value_out' = [jac_pinv |-> jac_pinv, s |-> s, weights |-> svd_weights(s)]
             /\ rng_draws' = (rng_draws \/ res.draws > 0)
             /\ acts' = acts + 1
             /\ last' = "act"
    /\ TwinIdle
    /\ UNCHANGED <<obs_out, assert_ok, ticks, episodes, hist,
                   reward, reward_out, calls, np_random, solo>>
NextSolve == SolveObs \/ SolveAct
SpecSolve == InitSolve /\ [][NextSolve]_vars

\* ------------------------------------------------------------ two agents
\* agent and twin, both in evaluation mode, are called in lockstep with the
\* same arguments; np.random has its own values ready for each instance
MaxTwinTicks == 2
MaxTwinActs == 1
TwinVels ==
    {v \in JointVels : v[1] \in {RInt(0), Rat(7, 2)}}
TwinTargets == {<<Rat(1, 4), Rat(-1, 2)>>}
InitTwin == InitWith(Schemes, {FALSE}, {DefaultFilter}, LongDts)
TwinReset ==
    /\ AgentReset
    /\ twin' = CallReset(twin)
    /\ UNCHANGED twin_out
    /\ OthersIdle
TwinProcessRawObs ==
    \E o \in {RawObsA, RawObsB}, r1 \in Noises, r2 \in Noises :
        /\ AgentObs(o, r1, MaxTwinTicks)
        /\ OthersIdle
        /\ \E res2 \in {process_raw_obs(twin, o, r2)} :
              /\ twin' = res2.self
              /\ twin_out' = <<ObsOut(res2), twin_out[2]>>
\* the solve is a function of what it reads: equal inputs, equal proposals
TwinProcessRawAct ==
    /\ agent.current_ee_pos # None
    /\ \E a \in TwinTargets, r1 \in Noises, r2 \in Noises, v1 \in TwinVels :
         \E v2 \in IF ik_in(agent, a, r1) = ik_in(twin, a, r2)
                    THEN {v1} ELSE TwinVels :
             /\ AgentAct(a, r1, v1, MaxTwinActs)
             /\ OthersIdle
             /\ \E res2 \in {process_raw_act(twin, a, r2, v2)} :
                   /\ twin' = res2.self
                   /\ twin_out' = <<twin_out[1], ActOut(res2, a)>>
NextTwin == TwinReset \/ TwinProcessRawObs \/ TwinProcessRawAct
SpecTwin == InitTwin /\ [][NextTwin]_vars

\* ------------------------------------------------------------ construction
\* the caller constructs the agent with any scheme id, then resets and ticks
MaxConstructTicks == 2
SchemeIds == 0..9
InitConstruct ==
    /\ agent = None
    /\ twin = None
    /\ obs_out = None
    /\ act_out = None
    /\ twin_out = <<None, None>>
    /\ assert_ok = TRUE
    /\ rng_draws = FALSE
    /\ ticks = 0
    /\ acts = 0
    /\ episodes = 0
    /\ hist = <<>>
    /\ last = "none"
    /\ InitOthers
Construct ==
    /\ calls = <<>>
    /\ \E sc \in SchemeIds, tr \in BOOLEAN :
         \E res \in {construct(sc, tr, DefaultFilter[1], DefaultFilter[2], 100, Rat(1, 2), 1, 3)} :
             /\ agent' = res.self
             /\ error' = res.error
             /\ calls' = <<[name |-> "__init__", scheme |-> sc, train |-> tr]>>
             /\ last' = "init"
    /\ UNCHANGED <<twin, obs_out, act_out, twin_out, assert_ok, rng_draws, ticks,
                   acts, episodes, hist, reward, reward_out, np_random, solo, value_out>>
Constructed == calls # <<>> /\ error = None
ConstructedReset ==
    /\ Constructed
    /\ AgentReset
    /\ TwinIdle
    /\ OthersIdle
ConstructedObs ==
    /\ Constructed
    /\ \E o \in RawObs, r \in RndObs(agent) :
          /\ AgentObs(o, r, MaxConstructTicks)
          /\ error' = IF assert_ok' THEN None ELSE <<"AssertionError", "">>
    /\ TwinIdle
    /\ UNCHANGED <<reward, reward_out, calls, np_random, solo, value_out>>
NextConstruct == Construct \/ ConstructedReset \/ ConstructedObs
SpecConstruct == InitConstruct /\ [][NextConstruct]_vars

\* ------------------------------------------------------------ the reward
\* one environment step: the encoder and the reward see the same puck.  The
\* encoder's reading o and the world-frame puck p lie on the same side of
\* the centre line.
MaxRewardTicks == 2
\* mdp.get_puck(next_state): <<position, velocity>>
RewardPucks ==
    { << <<-1100, 0>>, <<-300, 0>> >>, << <<-500, 300>>, <<0, 0>> >>,
      << <<-100, 100>>, <<10, 0>> >>, << <<-100, 100>>, <<400, 0>> >>,
      << <<0, 0>>, <<0, 0>> >>, << <<1100, 100>>, <<300, 0>> >> }
\* the stuck reward: the default and a value that is no other reward
StuckRewards == {RInt(0), Rat(-1, 10)}
SameSide(o, p) ==
    RSign(norm_xy(o.puck_pos[1], o.puck_pos[2])[1]) = Sign(p[1][1])
InitReward ==
    /\ InitAgent({5, 7}, {FALSE}, {DefaultFilter}, LongDts)
    /\ \E stuck \in StuckRewards :
          reward = TournamentReward(RInt(1), RInt(-1), Rat(1, 3), Rat(-1, 3), stuck)
    /\ reward_out = None
    /\ error = None
    /\ calls = <<>>
    /\ np_random = 0
    /\ solo = None
    /\ value_out = None
RewardStep ==
    /\ error = None
    /\ \E o \in RawObs, p \in RewardPucks, absorbing \in BOOLEAN, steps \in {1, 3} :
          /\ SameSide(o, p)
          /\ AgentObs(o, NoRnd, MaxRewardTicks)
          /\ \E res \in {TournamentReward_call(reward, p[1], p[2], agent.sim_dt, absorbing, steps * agent.sim_dt)} :
                /\ reward' = res.self
                /\ error' = res.error
                /\ reward_out' = [r |-> res.r, read |-> res.read, puck_pos |-> p[1],
                                  puck_vel |-> p[2], absorbing |-> absorbing]
                /\ calls' = Append(calls, [name |-> "reward",
                                           edge |-> (absorbing \/ steps < 2)])
    /\ TwinIdle
    /\ UNCHANGED <<np_random, solo, value_out>>
\* the caller resets the agent when the episode has ended
RewardReset ==
    /\ calls # <<>> /\ Last(calls).edge
    /\ AgentReset
    /\ calls' = <<>>
    /\ TwinIdle
    /\ UNCHANGED <<error, reward, reward_out, np_random, solo, value_out>>
NextReward == RewardStep \/ RewardReset
SpecReward == InitReward /\ [][NextReward]_vars

\* ------------------------------------------------------------ two episodes
\* agent and twin first live through different episodes, are both reset, and
\* are then called in lockstep with the same arguments; calls lists the
\* calls made since the reset
MaxEarlierTicks == 3
MaxLaterTicks == 2
EarlierTargets == <<<<RInt(-1), RInt(1)>>, <<Rat(1, 4), Rat(-1, 2)>>>>
InitEpisodes ==
    \/ InitWith(Schemes, {FALSE}, {DefaultFilter}, LongDts)
    \/ InitWith({7}, {TRUE}, {DefaultFilter}, LongDts)
EarlierObs ==
    /\ episodes = 0
    /\ \E o \in {RawObsA, RawObsC}, r \in RndObs(agent) :
          /\ AgentObs(o, r, MaxEarlierTicks)
          /\ \E res2 \in {process_raw_obs(twin, RawObsB, r)} :
                /\ twin' = res2.self
                /\ twin_out' = <<ObsOut(res2), twin_out[2]>>
    /\ OthersIdle
EarlierAct ==
    /\ episodes = 0
    /\ agent.current_ee_pos # None
    /\ \E r \in RndAct(agent), v1 \in TwinVels, v2 \in TwinVels :
          /\ AgentAct(EarlierTargets[1], r, v1, MaxTwinActs)
          /\ \E res2 \in {process_raw_act(twin, EarlierTargets[2], r, v2)} :
                /\ twin' = res2.self
                /\ twin_out' = <<twin_out[1], ActOut(res2, EarlierTargets[2])>>
    /\ OthersIdle
EpisodeBoundary ==
    /\ ticks >= 1
    /\ AgentReset
    /\ twin' = CallReset(twin)
    /\ calls' = <<>>
    /\ UNCHANGED <<twin_out, error, reward, reward_out, np_random, solo, value_out>>
LaterObs ==
    /\ episodes = 1
    /\ \E o \in {RawObsA, RawObsB}, r \in RndObs(agent) :
          /\ AgentObs(o, r, MaxLaterTicks)
          /\ \E res2 \in {process_raw_obs(twin, o, r)} :
                /\ twin' = res2.self
                /\ twin_out' = <<ObsOut(res2), twin_out[2]>>
    /\ calls' = Append(calls, "obs")
    /\ UNCHANGED <<error, reward, reward_out, np_random, solo, value_out>>
LaterAct ==
    /\ episodes = 1
    /\ agent.current_ee_pos # None
    /\ \E a \in TwinTargets, r \in RndAct(agent), v1 \in TwinVels :
         \E v2 \in IF ik_in(agent, a, r) = ik_in(twin, a, r)
                    THEN {v1} ELSE TwinVels :
             /\ AgentAct(a, r, v1, MaxTwinActs)
             /\ \E res2 \in {process_raw_act(twin, a, r, v2)} :
                   /\ twin' = res2.self
                   /\ twin_out' = <<twin_out[1], ActOut(res2, a)>>
    /\ calls' = Append(calls, "act")
    /\ UNCHANGED <<error, reward, reward_out, np_random, solo, value_out>>
NextEpisodes ==
    EarlierObs \/ EarlierAct \/ EpisodeBoundary \/ LaterObs \/ LaterAct
SpecEpisodes == InitEpisodes /\ [][NextEpisodes]_vars

\* ------------------------------------------------------------ normalization
\* _normalize_value and _unnormalize_value on float64 numbers: the
\* arguments are drawn at the start, NormalizeValue normalizes the value and
\* UnnormalizeValue maps the result back with the same range
NormRanges ==
    {<<RInt(-2), RInt(2)>>, <<RInt(1), RInt(5)>>, <<Rat(-3, 2), Rat(5, 2)>>,
     <<Rat(1, 2), Rat(7, 2)>>, <<Rat(5, 8), Rat(11, 8)>>}
NormValues == {F64(Rat(k, 8)) : k \in -16..40}
InitNormalize ==
    /\ InitAgent({7}, {FALSE}, {DefaultFilter}, LongDts)
    /\ \E rg \in NormRanges, x \in NormValues :
          /\ RLeq(rg[1], x) /\ RLeq(x, rg[2])
          /\ calls = <<[name |-> "_normalize_value", value |-> x,
                        low_in |-> rg[1], high_in |-> rg[2]]>>
    /\ value_out = None
    /\ error = None
    /\ reward = None
    /\ reward_out = None
    /\ np_random = 0
    /\ solo = None
NormalizeValue ==
    /\ Len(calls) = 1
    /\ value_out' = normalize_value_f64(calls[1].value, calls[1].low_in, calls[1].high_in)
    /\ calls' = Append(calls, [name |-> "_unnormalize_value", value |-> value_out',
                                low_out |-> calls[1].low_in,
                                high_out |-> calls[1].high_in])
    /\ UNCHANGED <<agent, twin, obs_out, act_out, twin_out, assert_ok, rng_draws,
                   ticks, acts, episodes, hist, last,
                   error, reward, reward_out, np_random, solo>>
UnnormalizeValue ==
    /\ Len(calls) = 2
    /\ value_out' = unnormalize_value_f64(calls[2].value, calls[2].low_out, calls[2].high_out)
    /\ calls' = Append(calls, [name |-> "return"])
    /\ UNCHANGED <<agent, twin, obs_out, act_out, twin_out, assert_ok, rng_draws,
                   ticks, acts, episodes, hist, last,
                   error, reward, reward_out, np_random, solo>>
NextNormalize == NormalizeValue \/ UnnormalizeValue
SpecNormalize == InitNormalize /\ [][NextNormalize]_vars

\* ------------------------------------------------------------ interleaving
\* agent and twin, both in evaluation mode, live in one process and are
\* called in any order, each with
\* its own arguments.  np.random is the one object both can reach: a call
\* that draws reads the stream at np_random and moves it on.  solo holds each
\* instance as it would be had it made its own calls alone, with the stream
\* to itself.  calls counts the calls made on twin.  The readings alternate:
\* agent sees RawObsA, RawObsB, ..., twin sees RawObsC, RawObsB, ...
MaxPairTicks == 3
Stream(k) == IF k % 2 = 0 THEN NoRnd ELSE SomeRnd
Alone(self) == [self |-> self, out |-> <<None, None>>, pos |-> 0]
InitPair ==
    /\ InitAgent({5, 7}, {FALSE}, {DefaultFilter}, LongDts)
    /\ solo = [agent |-> Alone(agent), twin |-> Alone(agent)]
    /\ calls = [obs |-> 0, act |-> 0, reset |-> 0]
    /\ np_random = 0
    /\ error = None
    /\ reward = None
    /\ reward_out = None
    /\ value_out = None
AgentSide == <<agent, obs_out, act_out, assert_ok, rng_draws, ticks, acts, episodes, hist, last>>
PairAgentReset ==
    /\ AgentReset
    /\ solo' = [solo EXCEPT !.agent.self = CallReset(@)]
    /\ TwinIdle
    /\ UNCHANGED <<error, reward, reward_out, calls, np_random, value_out>>
PairTwinReset ==
    /\ calls.reset < MaxEpisodes
    /\ twin' = CallReset(twin)
    /\ solo' = [solo EXCEPT !.twin.self = CallReset(@)]
    /\ calls' = [calls EXCEPT !.reset = @ + 1, !.obs = 0, !.act = 0]
    /\ UNCHANGED <<AgentSide, twin_out, error, reward, reward_out, np_random, value_out>>
PairAgentObs ==
    \E o \in {IF ticks % 2 = 0 THEN RawObsA ELSE RawObsB} :
        /\ AgentObs(o, Stream(np_random), MaxPairTicks)
        /\ \E res \in {process_raw_obs(agent, o, Stream(np_random))}, sres \in {process_raw_obs(solo.agent.self, o, Stream(solo.agent.pos))} :
              /\ np_random' = np_random + res.draws
              /\ solo' = [solo EXCEPT !.agent =
                            [self |-> sres.self, out |-> <<ObsOut(sres), @.out[2]>>,
                             pos |-> @.pos + sres.draws]]
        /\ TwinIdle
        /\ UNCHANGED <<error, reward, reward_out, calls, value_out>>
PairTwinObs ==
    /\ calls.obs < MaxPairTicks
    /\ \E o \in {IF calls.obs % 2 = 0 THEN RawObsC ELSE RawObsB} :
         \E res \in {process_raw_obs(twin, o, Stream(np_random))}, sres \in {process_raw_obs(solo.twin.self, o, Stream(solo.twin.pos))} :
              /\ twin' = res.self
              /\ twin_out' = <<ObsOut(res), twin_out[2]>>
              /\ np_random' = np_random + res.draws
              /\ solo' = [solo EXCEPT !.twin =
                            [self |-> sres.self, out |-> <<ObsOut(sres), @.out[2]>>,
                             pos |-> @.pos + sres.draws]]
    /\ calls' = [calls EXCEPT !.obs = @ + 1]
    /\ UNCHANGED <<AgentSide, error, reward, reward_out, value_out>>
PairAgentAct ==
    /\ agent.current_ee_pos # None
    /\ \E a \in TwinTargets, v \in TwinVels :
         \E sv \in IF ik_in(agent, a, Stream(np_random)) = ik_in(solo.agent.self, a, Stream(solo.agent.pos))
                    THEN {v} ELSE TwinVels :
             /\ AgentAct(a, Stream(np_random), v, MaxTwinActs)
             /\ \E res \in {process_raw_act(agent, a, Stream(np_random), v)}, sres \in {process_raw_act(solo.agent.self, a, Stream(solo.agent.pos), sv)} :
                   /\ np_random' = np_random + res.draws
                   /\ solo' = [solo EXCEPT !.agent =
                                 [self |-> sres.self, out |-> <<@.out[1], ActOut(sres, a)>>,
                                  pos |-> @.pos + sres.draws]]
    /\ TwinIdle
    /\ UNCHANGED <<error, reward, reward_out, calls, value_out>>
PairTwinAct ==
    /\ twin.current_ee_pos # None
    /\ calls.act < MaxTwinActs
    /\ \E a \in {EarlierTargets[1]}, v \in TwinVels :
         \E sv \in IF ik_in(twin, a, Stream(np_random)) = ik_in(solo.twin.self, a, Stream(solo.twin.pos))
                    THEN {v} ELSE TwinVels :
             \E res \in {process_raw_act(twin, a, Stream(np_random), v)}, sres \in {process_raw_act(solo.twin.self, a, Stream(solo.twin.pos), sv)} :
                   /\ twin' = res.self
                   /\ twin_out' = <<twin_out[1], ActOut(res, a)>>
                   /\ np_random' = np_random + res.draws
                   /\ solo' = [solo EXCEPT !.twin =
                                 [self |-> sres.self, out |-> <<@.out[1], ActOut(sres, a)>>,
                                  pos |-> @.pos + sres.draws]]
    /\ calls' = [calls EXCEPT !.act = @ + 1]
    /\ UNCHANGED <<AgentSide, error, reward, reward_out, value_out>>
NextPair ==
    \/ PairAgentReset \/ PairTwinReset
    \/ PairAgentObs \/ PairTwinObs
    \/ PairAgentAct \/ PairTwinAct
SpecPair == InitPair /\ [][NextPair]_vars

\* ------------------------------------------------------------ the target
\* infer_action over policy outputs inside and outside [-1, 1]^2, of either
\* dtype, with mallet readings inside and outside the table
MaxTargetActs == 2
PolicyOutputs ==
    {<<Rat(3, 2), RInt(-2)>>, <<RInt(1), RInt(1)>>, <<RInt(-1), Rat(1, 4)>>,
     <<Rat(1, 4), Rat(-1, 2)>>}
InitTarget ==
    \/ InitWith({7}, {FALSE}, Filters, LongDts)
    \/ InitWith({7}, {TRUE}, {DefaultFilter}, LongDts)
TargetObs ==
    \E o \in {RawObsA, RawObsB}, r \in IF agent.evaluate THEN {NoRnd} ELSE Noises :
        AgentObs(o, r, MaxDecoderTicks) /\ TwinIdle /\ OthersIdle
InferAction ==
    /\ agent.current_ee_pos # None
    /\ acts < MaxTargetActs
    /\ \E policy_out \in PolicyOutputs, dtype \in {"float32", "float64"},
          r \in RndAct(agent) :
          \E inf \in {infer_action(agent, policy_out, dtype, r, [i \in 1..NJoints |-> RInt(0)])} :
             /\ agent' = inf.res.self
             /\ act_out' = ActOut(inf.res, inf.action)
             /\ value_out' = [policy_out |-> policy_out, dtype |-> dtype,
                              target |-> inf.target]
             /\ rng_draws' = (rng_draws \/ inf.res.draws > 0)
             /\ acts' = acts + 1
             /\ last' = "act"
    /\ TwinIdle
    /\ UNCHANGED <<obs_out, assert_ok, ticks, episodes, hist,
                   error, reward, reward_out, calls, np_random, solo>>
NextTarget == Reset \/ TargetObs \/ InferAction
SpecTarget == InitTarget /\ [][NextTarget]_vars

\* ------------------------------------------------------------ the unsigned timer
\* the timer of scheme 2 in float64 over runs of ticks on either side of
\* the table; calls logs the ticks
MaxUnsignedTicks == 8
UnsignedDts == {RInt(5), RInt(40)}
InitUnsigned ==
    /\ InitAgent({2}, {FALSE}, {DefaultFilter}, ShortDts)
    /\ error = None
    /\ reward = None
    /\ reward_out = None
    /\ calls = <<>>
    /\ np_random = 0
    /\ solo = None
    /\ value_out \in {[dt |-> dt, timer |-> RInt(0)] : dt \in UnsignedDts}
UnsignedTick ==
    /\ Len(calls) < MaxUnsignedTicks
    /\ \E x \in {Rat(-1, 2), RInt(0), Rat(1, 2)} :
          \E res \in {unsigned_penalty_step(value_out.timer, x, value_out.dt)} :
             /\ value_out' = [value_out EXCEPT !.timer = res.timer]
             /\ calls' = Append(calls, [x |-> x, out |-> res.current,
                                        timer |-> res.timer])
    /\ last' = "obs"
    /\ UNCHANGED <<agent, twin, obs_out, act_out, twin_out, assert_ok, rng_draws,
                   ticks, acts, episodes, hist,
                   error, reward, reward_out, np_random, solo>>
NextUnsigned == UnsignedTick
SpecUnsigned == InitUnsigned /\ [][NextUnsigned]_vars

\* ------------------------------------------------------------ the tournament
\* TournamentReward alone over several episodes: pucks in either goal, on
\* either side, in the centre strip and on the centre line; calls holds,
\* per call, whether it was an episode end and the side it read
MaxTournamentCalls == 4
TournamentPucks ==
    RewardPucks \cup
    { << <<500, 300>>, <<0, 0>> >>, << <<1100, 300>>, <<0, 0>> >>,
      << <<0, 300>>, <<400, 0>> >> }
InitTournament ==
    /\ InitAgent({7}, {FALSE}, {DefaultFilter}, LongDts)
    /\ \E stuck \in StuckRewards :
          reward = TournamentReward(RInt(1), RInt(-1), Rat(1, 3), Rat(-1, 3), stuck)
    /\ reward_out = None
    /\ error = None
    /\ calls = <<>>
    /\ np_random = 0
    /\ solo = None
    /\ value_out = None
TournamentStep ==
    /\ error = None
    /\ Len(calls) < MaxTournamentCalls
    /\ \E p \in TournamentPucks, absorbing \in BOOLEAN, steps \in {1, 3} :
          /\ absorbing => steps = 3
          /\ \E res \in {TournamentReward_call(reward, p[1], p[2], agent.sim_dt, absorbing, steps * agent.sim_dt)} :
                /\ reward' = res.self
                /\ error' = res.error
                /\ reward_out' = [r |-> res.r, read |-> res.read, puck_pos |-> p[1],
                                  puck_vel |-> p[2], absorbing |-> absorbing,
                                  time |-> steps * agent.sim_dt, before |-> reward]
                /\ calls' = Append(calls, [edge |-> (absorbing \/ steps < 2),
                                           side |-> res.read.side])
    /\ last' = "reward"
    /\ UNCHANGED <<agent, twin, obs_out, act_out, twin_out, assert_ok, rng_draws,
                   ticks, acts, episodes, hist, np_random, solo, value_out>>
NextTournament == TournamentStep
SpecTournament == InitTournament /\ [][NextTournament]_vars

\* ------------------------------------------------------------ the shapers
\* one of HitReward, DefendReward and PrepareReward over several episodes.
\* The simulation time is the number of steps since the environment was
\* reset times dt: the first call and the call after an absorbing one come
\* one step after a reset.  calls holds, per call, whether the end-effector
\* touched the puck, whether the call was absorbing, whether it came in the
\* first two steps, and has_hit after it
MaxShaperCalls == 3
\* <<ee_pos, puck_cur_pos>>: 80, 85 and 500 millimetres apart
ShaperContacts ==
    { << <<-600, 0>>, <<-520, 0>> >>, << <<-600, 0>>, <<-515, 0>> >>,
      << <<-700, 100>>, <<-300, 400>> >> }
\* q = init_state and q half a radian away from it
ShaperAtRest == init_state
ShaperMoved == [init_state EXCEPT ![1] = Rat(3, 10), ![2] = Rat(1, 5)]
\* <<puck_pos, puck_vel, q>> of next_state: in the far goal, past the far
\* edge beside the goal, in the defended goal slowly and fast, past the
\* defended edge beside the goal slowly, on the table fast, slow, under the
\* end-effector, and moving forward near the far edge
ShaperScenes ==
    { << <<1100, 100>>, <<300, 0>>, ShaperAtRest >>,
      << <<1100, 300>>, <<300, 0>>, ShaperMoved >>,
      << <<-1100, 0>>, <<-50, 0>>, ShaperMoved >>,
      << <<-1100, 100>>, <<-300, 0>>, ShaperAtRest >>,
      << <<-1100, 300>>, <<50, 0>>, ShaperMoved >>,
      << <<-300, 400>>, <<-300, 0>>, ShaperMoved >>,
      << <<-520, 0>>, <<0, 0>>, ShaperAtRest >>,
      << <<-600, 0>>, <<0, 0>>, ShaperAtRest >>,
      << <<800, 100>>, <<400, 0>>, ShaperMoved >> }
InitShaping ==
    /\ InitAgent({7}, {FALSE}, {DefaultFilter}, LongDts)
    /\ \E kind \in {"Hit", "Defend", "Prepare"} : reward = Shaper(kind)
    /\ reward_out = None
    /\ error = None
    /\ calls = <<>>
    /\ np_random = 0
    /\ solo = None
    /\ value_out = None
ShaperStep(kind) ==
    /\ reward.kind = kind
    /\ Len(calls) < MaxShaperCalls
    /\ \E c \in ShaperContacts, sc \in ShaperScenes, absorbing \in BOOLEAN, steps \in {1, 3} :
          /\ (calls = <<>> \/ Last(calls).absorbing) => steps = 1
          /\ \E res \in {Shaper_call(reward, c[1], c[2], sc[1], sc[2], sc[3],
                                     agent.sim_dt, absorbing, steps * agent.sim_dt)} :
                /\ reward' = res.self
                /\ reward_out' = [r |-> res.r, ee_pos |-> c[1], puck_pos |-> sc[1],
                                  puck_vel |-> sc[2], q |-> sc[3],
                                  absorbing |-> absorbing,
                                  time |-> steps * agent.sim_dt, before |-> reward]
                /\ calls' = Append(calls, [hit |-> _has_hit(c[1], c[2]),
                                           absorbing |-> absorbing,
                                           early |-> steps < 2,
                                           has_hit |-> res.self.has_hit])
    /\ last' = "reward"
    /\ UNCHANGED <<agent, twin, obs_out, act_out, twin_out, assert_ok, rng_draws,
                   ticks, acts, episodes, hist, error, np_random, solo, value_out>>
HitStep == ShaperStep("Hit")
DefendStep == ShaperStep("Defend")
PrepareStep == ShaperStep("Prepare")
NextShaping == HitStep \/ DefendStep \/ PrepareStep
SpecShaping == InitShaping /\ [][NextShaping]_vars

\* ------------------------------------------------------------ tracking loss
\* scheme 7 in training over two episodes, with the readings alternating
\* from tick to tick; calls logs every call: for a tick the normalized
\* reading, the newest buffer entries and the simulator's state after it
MaxTrackingCalls == 7
TrackingSettings ==
    {[inc |-> Rat(5, 64), min |-> 1, max |-> 3],
     [inc |-> Rat(3, 4), min |-> 0, max |-> 2]}
InitTracking ==
    /\ \E c \in TrackingSettings :
          agent = SpaceRAgent(7, TRUE, DefaultFilter[1], DefaultFilter[2], 100,
                              c.inc, c.min, c.max)
    /\ twin = agent
    /\ obs_out = None
    /\ act_out = None
    /\ twin_out = <<None, None>>
    /\ assert_ok = TRUE
    /\ rng_draws = FALSE
    /\ ticks = 0
    /\ acts = 0
    /\ episodes = 0
    /\ hist = <<>>
    /\ last = "init"
    /\ InitOthers
TrackingDraws(self) ==
    {r \in RndObs(self) : r.ee = NoRnd.ee /\ r.opp = NoRnd.opp /\ r.puck = NoRnd.puck}
TrackingEntry(self, res) ==
    [kind |-> "obs",
     first |-> self.new_episode,
     blind |-> ~self.new_episode /\ self.lose_tracking_n_steps_remaining > 0,
     started |-> res.draws = 5,
     reading |-> res.readings,
     puck |-> Last(res.self.stacked_obs_puck_pos),
     rot |-> Last(res.self.stacked_obs_puck_rot),
     prob |-> res.self.lose_tracking_probability,
     steps |-> res.self.lose_tracking_n_steps_remaining]
TrackingObs ==
    /\ Len(calls) < MaxTrackingCalls
    /\ \E o \in {IF Len(calls) % 2 = 0 THEN RawObsA ELSE RawObsB},
          r \in TrackingDraws(agent) :
          \E res \in {process_raw_obs(agent, o, r)} :
             /\ agent' = res.self
             /\ obs_out' = ObsOut(res)
             /\ assert_ok' = (assert_ok /\ res.assert_ok)
             /\ rng_draws' = (rng_draws \/ res.draws > 0)
             /\ ticks' = ticks + 1
             /\ hist' = Append(hist, HistEntry(res))
             /\ calls' = Append(calls, TrackingEntry(agent, res))
             /\ last' = "obs"
    /\ TwinIdle
    /\ UNCHANGED <<act_out, acts, episodes,
                   error, reward, reward_out, np_random, solo, value_out>>
TrackingReset ==
    /\ Len(calls) < MaxTrackingCalls
    /\ last = "obs"
    /\ AgentReset
    /\ calls' = Append(calls, [kind |-> "reset",
                               prob |-> agent'.lose_tracking_probability,
                               steps |-> agent'.lose_tracking_n_steps_remaining])
    /\ TwinIdle
    /\ UNCHANGED <<error, reward, reward_out, np_random, solo, value_out>>
NextTracking == TrackingObs \/ TrackingReset
SpecTracking == InitTracking /\ [][NextTracking]_vars

\* ------------------------------------------------------------ blind ticks
\* scheme 7 in training with the puck on either half in every tick, so that
\* it can change sides while tracking is lost; calls and hist as in the
\* tracking loss
MaxBlindCalls == 5
BlindObs ==
    /\ Len(calls) < MaxBlindCalls
    /\ \E o \in {RawObsA, RawObsB}, r \in TrackingDraws(agent) :
          \E res \in {process_raw_obs(agent, o, r)} :
             /\ agent' = res.self
             /\ obs_out' = ObsOut(res)
             /\ assert_ok' = (assert_ok /\ res.assert_ok)
             /\ rng_draws' = (rng_draws \/ res.draws > 0)
             /\ ticks' = ticks + 1
             /\ hist' = Append(hist, HistEntry(res))
             /\ calls' = Append(calls, TrackingEntry(agent, res))
             /\ last' = "obs"
    /\ TwinIdle
    /\ UNCHANGED <<act_out, acts, episodes,
                   error, reward, reward_out, np_random, solo, value_out>>
BlindReset ==
    /\ Len(calls) < MaxBlindCalls
    /\ TrackingReset
NextBlind == BlindObs \/ BlindReset
SpecBlind == InitTracking /\ [][NextBlind]_vars

\* ------------------------------------------------------------ properties
\* the history buffers of an agent, their capacities and the ones a scheme has
Buffers(self) ==
    [ee |-> self.stacked_obs_participant_ee_pos,
     opp |-> self.stacked_obs_opponent_ee_pos,
     puck |-> self.stacked_obs_puck_pos,
     rot |-> self.stacked_obs_puck_rot]
Capacity(scheme) ==
    [ee |-> n_stacked_obs_participant_ee_pos(scheme),
     opp |-> n_stacked_obs_opponent_ee_pos(scheme),
     puck |-> n_stacked_obs_puck_pos(scheme),
     rot |-> n_stacked_obs_puck_rot(scheme)]
Fields(scheme) ==
    IF scheme = 7 THEN {"puck", "rot", "ee", "opp"} ELSE {"puck", "ee", "opp"}

\* the values of a field seen on the ticks of this episode, and the last n of
\* (first value n times, then the later ones)
Seen(f) == [k \in 1..Len(hist) |-> hist[k][f]]
LastN(q, n) == SubSeq(q, Len(q) - n + 1, Len(q))
Expected(f) ==
    LET n == Capacity(agent.scheme)[f]
    IN  LastN(Tile(Seen(f)[1], n) \o Tail(Seen(f)), n)

\* the part of the returned vector that holds the histories, and what it is
\* expected to hold
OutHistory ==
    SubSeq(obs_out, (IF agent.scheme \in {6, 7} THEN 9 ELSE 2), Len(obs_out))
ExpectedHistory ==
    Flatten(Expected("puck"))
    \o (IF agent.scheme = 7 THEN Flatten(Expected("rot")) ELSE <<>>)
    \o Flatten(Expected("ee")) \o Flatten(Expected("opp"))

\* C1: in every scheme 2..7 and both modes, after any resets and ticks, the
\* returned vector has the declared length 1 + 2*ee + 2*opponent + 2*puck
\* (+7 in schemes 6 and 7, + 2*rotation in scheme 7): the shape assertion
\* never fails and the length is the same on every tick.
C1_DeclaredLength ==
    /\ assert_ok
    /\ obs_out # None =>
         Len(obs_out) =
            1 + 2 * Capacity(agent.scheme).ee + 2 * Capacity(agent.scheme).opp
              + 2 * Capacity(agent.scheme).puck
              + (IF agent.scheme \in {6, 7} THEN 7 ELSE 0)
              + (IF agent.scheme = 7 THEN 2 * Capacity(agent.scheme).rot ELSE 0)
C1_Witness ==
    /\ agent.scheme = 7 /\ ~agent.evaluate
    /\ episodes = 1 /\ ticks >= 2
    /\ Len(obs_out) = 40

\* C2: on every tick of every episode, however long the puck dwells on one
\* half and whatever the raw inputs, every element of the returned vector
\* lies in [-1, 1].
C2_UnitRange ==
    obs_out # None => \A i \in 1..Len(obs_out) : InUnit(obs_out[i])
C2_Witness ==
    /\ agent.scheme = 3
    /\ agent.penalty_timer > MAX_TIME_UNTIL_PENALTY_S
    /\ obs_out[1] = RInt(1)
    /\ Last(hist).puck = <<RInt(1), RInt(1)>>
    /\ Last(hist).opp = <<RInt(1), RInt(-1)>>

\* C3: the joint velocity returned by process_raw_act lies within the scaled
\* limits for every joint, and when downscaling was triggered some joint's
\* returned velocity equals the limit it had exceeded.
C3_VelocityWithinLimits ==
    last = "act" =>
        LET v == act_out.out[2]
            outside == joints_outside_vel_limit(act_out.proposed)
            above == joints_above_vel_limit(act_out.proposed)
        IN  /\ \A i \in 1..NJoints :
                  /\ RLeq(robot_joint_vel_limit_scaled(0, i), v[i])
                  /\ RLeq(v[i], robot_joint_vel_limit_scaled(1, i))
            /\ outside # {} =>
                  \E i \in outside :
                      v[i] = robot_joint_vel_limit_scaled(
                                 IF i \in above THEN 1 ELSE 0, i)

\* C4: in evaluation mode two agents built from the same arguments and given
\* the same calls return the same outputs and hold the same state after
\* every call, and no call draws a random number.
C4_EvaluationDeterministic ==
    agent.evaluate =>
        /\ twin = agent
        /\ twin_out = <<obs_out, act_out>>
        /\ ~rng_draws
C4_Witness ==
    /\ agent.evaluate /\ agent.scheme = 7
    /\ episodes = 1 /\ ticks = 2 /\ acts = 1 /\ last = "act"
    /\ twin_out = <<obs_out, act_out>>
    /\ hist[1].puck # hist[2].puck

\* C5: in schemes 3..7 the first tick of an episode sets the side to the sign
\* of the normalized puck x and leaves the timer at 0; a later tick with the
\* sign of the side adds dt and keeps the side; a tick with another sign
\* zeroes the timer and negates the side.  For the signs [+,+,+,-,-] the
\* timer reads [0, dt, 2dt, 0, dt] and the side flips at index 3.
Signs == [k \in 1..Len(hist) |-> RSign(hist[k].puck[1])]
C5_PenaltyTimer ==
    agent.scheme \in 3..7 =>
        /\ \A k \in 1..Len(hist) :
              IF k = 1
              THEN hist[k].side = <<Signs[k]>> /\ hist[k].timer = 0
              ELSE IF Signs[k] = hist[k - 1].side[1]
                   THEN /\ hist[k].timer = hist[k - 1].timer + agent.sim_dt
                        /\ hist[k].side = hist[k - 1].side
                   ELSE /\ hist[k].timer = 0
                        /\ hist[k].side = <<-1 * hist[k - 1].side[1]>>
        /\ Signs = <<1, 1, 1, -1, -1>> =>
              /\ [k \in 1..5 |-> hist[k].timer]
                   = <<0, agent.sim_dt, 2 * agent.sim_dt, 0, agent.sim_dt>>
              /\ [k \in 1..5 |-> hist[k].side[1]] = <<1, 1, 1, -1, -1>>
C5_Witness ==
    /\ agent.scheme = 7
    /\ Signs = <<1, 1, 1, -1, -1>>
    /\ agent.penalty_side = <<-1>>
    /\ agent.penalty_timer = agent.sim_dt

\* C6: after the first tick of an episode, in every scheme and both modes,
\* each history buffer holds capacity entries, all equal to that tick's
\* normalized value; after every later tick it still holds capacity entries.
C6_ReplicateFill ==
    ticks >= 1 =>
        \A f \in Fields(agent.scheme) :
            /\ Len(Buffers(agent)[f]) = Capacity(agent.scheme)[f]
            /\ ticks = 1 =>
                 \A i \in 1..Capacity(agent.scheme)[f] :
                     Buffers(agent)[f][i] = hist[1][f]
C6_Witness ==
    /\ agent.scheme = 7 /\ ~agent.evaluate
    /\ episodes = 1 /\ ticks = 1
    /\ Len(agent.stacked_obs_puck_pos) = 10
    /\ agent.stacked_obs_puck_pos[1] = hist[1].puck
    /\ agent.stacked_obs_puck_pos[10] = hist[1].puck

\* C7, as stated: in evaluation mode the histories in the returned vector
\* equal, oldest first, the last N of (v0 N times, v1, ..., vk).
C7_OutputEqualsHistory ==
    (agent.evaluate /\ ticks >= 1) => OutHistory = ExpectedHistory
\* C7, amended: in evaluation mode every buffer holds exactly the last N of
\* (v0 N times, v1, ..., vk), oldest first; the returned vector holds them
\* exactly in schemes 5..7 and rounded to float32 in schemes 2..4.
C7_OutputEqualsRoundedHistory ==
    (agent.evaluate /\ ticks >= 1) =>
        /\ \A f \in Fields(agent.scheme) : Buffers(agent)[f] = Expected(f)
        /\ OutHistory =
             IF agent.scheme \in {2, 3, 4}
             THEN [i \in 1..Len(ExpectedHistory) |-> F32(ExpectedHistory[i])]
             ELSE ExpectedHistory
C7_Witness ==
    /\ agent.evaluate /\ agent.scheme = 3 /\ ticks = 3
    /\ hist[1].puck # hist[2].puck /\ hist[2].puck # hist[3].puck
    /\ agent.stacked_obs_puck_pos = Tile(hist[1].puck, 7) \o <<hist[2].puck, hist[3].puck>>
    /\ OutHistory # ExpectedHistory

\* C8: in evaluation mode the newest puck position and rotation entries are
\* the current tick's readings, and lose_tracking_probability and
\* lose_tracking_n_steps_remaining stay 0.
C8_NoTrackingLossInEvaluation ==
    agent.evaluate =>
        /\ agent.lose_tracking_probability = RInt(0)
        /\ agent.lose_tracking_n_steps_remaining = 0
        /\ ticks >= 1 =>
             /\ Last(agent.stacked_obs_puck_pos) = Last(hist).puck
             /\ agent.scheme = 7 =>
                  Last(agent.stacked_obs_puck_rot) = Last(hist).rot
C8_Witness ==
    /\ agent.evaluate /\ agent.scheme = 7
    /\ episodes = 1 /\ ticks = 3
    /\ hist[1].puck # hist[2].puck /\ hist[2].puck # hist[3].puck
    /\ hist[2].rot # hist[3].rot

\* C9: with the filter enabled, the first process_raw_act of an episode uses
\* as previous the normalized end-effector position the last process_raw_obs
\* stored; every call computes alpha*previous + (1-alpha)*target, which is
\* the previous of the next call; with the filter disabled the target passes
\* through unchanged.
C9_Step ==
    last' = "act" =>
        IF agent.filter_actions_enabled
        THEN /\ act_out'.previous =
                    IF acts = 0 THEN agent.current_ee_pos_xy_norm
                    ELSE act_out.filtered
             /\ act_out'.filtered =
                    [i \in 1..2 |->
                        FAdd(FMul(agent.filter_actions_coefficient,
                                  act_out'.previous[i]),
                             FMul(FSub(RInt(1), agent.filter_actions_coefficient),
                                  act_out'.action[i]))]
             /\ agent'.previous_ee_pos_xy_norm = act_out'.filtered
        ELSE act_out'.filtered = act_out'.action
C9_ActionFilter == [][C9_Step]_vars
C9_Witness ==
    /\ agent.filter_actions_enabled
    /\ agent.filter_actions_coefficient = Rat(3, 4)
    /\ episodes = 1 /\ ticks = 0 /\ acts = 1 /\ last = "act"
    /\ act_out.previous = agent.current_ee_pos_xy_norm
    /\ act_out.previous # act_out.action
    /\ act_out.filtered # act_out.action
    /\ act_out.filtered # act_out.previous

\* C10: with alpha = 1 every call of an episode returns the previous filtered
\* value, the seed on the first call, whatever the target; with alpha = 0
\* every call returns the target, the first call of an episode included.
C10_Step ==
    (last' = "act" /\ agent.filter_actions_enabled) =>
        /\ agent.filter_actions_coefficient = RInt(1) =>
             act_out'.filtered =
                 IF acts = 0 THEN agent.current_ee_pos_xy_norm
                 ELSE act_out.filtered
        /\ agent.filter_actions_coefficient = RInt(0) =>
             act_out'.filtered = act_out'.action
C10_FilterExtremes == [][C10_Step]_vars
C10_Witness ==
    /\ agent.filter_actions_enabled
    /\ agent.filter_actions_coefficient = RInt(1)
    /\ acts = 2 /\ last = "act"
    /\ act_out.filtered = agent.current_ee_pos_xy_norm
    /\ act_out.filtered # act_out.action

\* C11: constructing the agent with a scheme id outside 2..7, the retired id
\* 1 included, raises ValueError and leaves no agent to call; with an id in
\* 2..7 the constructor raises nothing, and no process_raw_obs call of the
\* agent fails afterwards.
C11_SchemeErrorAtConstruction ==
    calls # <<>> =>
        /\ (calls[1].scheme \notin 2..7) <=> (error # None)
        /\ error # None =>
              /\ error[1] = "ValueError"
              /\ agent = None /\ ticks = 0 /\ obs_out = None
        /\ calls[1].scheme \in 2..7 =>
              /\ agent.scheme = calls[1].scheme
              /\ assert_ok
              /\ ticks >= 1 => Len(obs_out) = observation_space(agent)
C11_Witness ==
    /\ calls # <<>> /\ calls[1].scheme = 1
    /\ error = <<"ValueError", "Scheme 1 is no longer supported">>
    /\ agent = None /\ ticks = 0

\* C12: a terminal (absorbing) step of TournamentReward with the puck at
\* |x| < 0.15 and |x-velocity| < 0.025 returns the configured puck-stuck
\* reward, whatever the penalty timer and side are, never a fault or goal
\* reward, and raises nothing.
C12_PuckStuckReward ==
    (/\ reward_out # None
     /\ reward_out.absorbing
     /\ Abs(reward_out.puck_pos[1]) < 150
     /\ Abs(reward_out.puck_vel[1]) < 25) =>
        /\ error = None
        /\ reward_out.r = reward.reward_agent_cause_puck_stuck
C12_Witness ==
    /\ reward_out # None /\ reward_out.absorbing
    /\ reward_out.puck_pos = <<-100, 100>> /\ reward_out.puck_vel = <<10, 0>>
    /\ RLt(reward.penalty_threshold, RInt(reward_out.read.timer))
    /\ reward_out.read.side = <<-1>>
    /\ reward_out.r = Rat(-1, 10)
    /\ reward_out.r # reward.reward_agent_faul

\* what reset() leaves: timer 0, side unset (schemes 3..7), empty buffers,
\* tracking-loss state (0, 0), no previous filter value
AfterReset(self) ==
    /\ self.penalty_timer = 0
    /\ self.scheme \in 3..7 => self.penalty_side = None
    /\ \A f \in Fields(self.scheme) : Buffers(self)[f] = <<>>
    /\ self.lose_tracking_probability = RInt(0)
    /\ self.lose_tracking_n_steps_remaining = 0
    /\ self.previous_ee_pos_xy_norm = None
\* the output of the last call since the reset is the same for agent and twin
SameOutput ==
    IF Last(calls) = "obs" THEN twin_out[1] = obs_out
    ELSE twin_out[2].filtered = act_out.filtered
C14_SameTimerRule ==
    (/\ ticks >= 1
     /\ Len(calls) = ticks
     /\ \A k \in 1..Len(calls) : ~calls[k].edge) =>
        <<agent.penalty_side, agent.penalty_timer>>
            = <<reward.penalty_side, reward.penalty_timer>>

\* C15: after every process_raw_obs tick in schemes 3..7 the penalty side is
\* the sign of the current normalized puck x, a puck on the centre line
\* (sign 0) on the first or on a later tick included.
C15_SideIsCurrentSign ==
    (agent.scheme \in 3..7 /\ ticks >= 1) =>
        agent.penalty_side = <<RSign(Last(hist).puck[1])>>

\* the value, the range and the largest magnitude of the range of a round trip
StrictlyInside ==
    RLt(calls[1].low_in, calls[1].value) /\ RLt(calls[1].value, calls[1].high_in)
RangeMagnitude ==
    LET lo == calls[1].low_in
        hi == calls[1].high_in
        al == Rat(Abs(lo[1]), lo[2])
        ah == Rat(Abs(hi[1]), hi[2])
    IN  IF RLeq(al, ah) THEN ah ELSE al
RoundTripError ==
    LET d == RSub(value_out, calls[1].value) IN Rat(Abs(d[1]), d[2])
\* C16, as stated: _unnormalize_value(_normalize_value(x, low, high), low,
\* high) equals x for every x strictly inside (low, high), and
\* _normalize_value maps low to -1 and high to +1.
C16_RoundTripExact ==
    /\ Len(calls) = 2 =>
          /\ calls[1].value = calls[1].low_in => value_out = RInt(-1)
          /\ calls[1].value = calls[1].high_in => value_out = RInt(1)
    /\ (Len(calls) = 3 /\ StrictlyInside) => value_out = calls[1].value
\* C16, amended: _normalize_value maps low to -1 and high to +1 exactly and
\* every x inside the range into [-1, 1]; the round trip returns x up to
\* rounding, within 4 * 2^-DoubleBits times the larger magnitude of low and
\* high (a few units in the last place of the range).
C16_RoundTripWithinRounding ==
    /\ Len(calls) = 2 =>
          /\ calls[1].value = calls[1].low_in => value_out = RInt(-1)
          /\ calls[1].value = calls[1].high_in => value_out = RInt(1)
          /\ InUnit(value_out)
    /\ (Len(calls) = 3 /\ StrictlyInside) =>
          RLeq(RMul(RInt(Pow2(DoubleBits)), RoundTripError),
               RMul(RInt(4), RangeMagnitude))
C16_Witness ==
    /\ Len(calls) = 3 /\ StrictlyInside
    /\ calls[1].low_in = Rat(1, 2) /\ calls[1].high_in = Rat(7, 2)
    /\ value_out # calls[1].value
    /\ RLt(RoundTripError, Rat(1, 4))

\* C17: in evaluation mode, for any interleaving of the reset,
\* process_raw_obs and process_raw_act calls of two agents, the state and the
\* outputs of each agent after each call are what they would be had the
\* agent made its own calls alone.
C17_InstancesIndependent ==
    agent.evaluate =>
        /\ agent = solo.agent.self
        /\ <<obs_out, act_out>> = solo.agent.out
        /\ twin = solo.twin.self
        /\ twin_out = solo.twin.out
C17_Witness ==
    /\ agent.evaluate /\ agent.scheme = 7
    /\ ticks = 2 /\ acts = 1 /\ calls.obs = 2 /\ calls.act = 1
    /\ agent.stacked_obs_puck_pos # twin.stacked_obs_puck_pos
    /\ agent.previous_ee_pos_xy_norm # twin.previous_ee_pos_xy_norm
    /\ agent = solo.agent.self /\ twin = solo.twin.self

\* C18: for every proposed velocity vector, the all-zero one included, no
\* joint with proposed velocity 0 is among the out-of-limit joints that
\* enter the downscaling factor, so the velocity-limit step never divides
\* by zero and every returned velocity is a finite number.
C18_NoDivisionByZero ==
    last = "act" =>
        /\ \A i \in joints_outside_vel_limit(act_out.proposed) :
              act_out.proposed[i] # RInt(0)
        /\ \A i \in 1..NJoints :
              /\ act_out.out[2][i][2] # 0
              /\ act_out.proposed[i] = RInt(0) => act_out.out[2][i] = RInt(0)
C18_Witness ==
    /\ last = "act"
    /\ act_out.proposed[1] = Rat(7, 2)
    /\ \A i \in 2..NJoints : act_out.proposed[i] = RInt(0)
    /\ joints_outside_vel_limit(act_out.proposed) = {1}
    /\ act_out.out[2][1] # Rat(7, 2)
    /\ act_out.out[2][2] = RInt(0)

\* C19: for any Jacobian, one with a zero singular value included,
\* process_raw_act raises no error and returns a joint command: a position
\* and a velocity for every joint.
C19_SolveReturnsCommand ==
    last = "act" =>
        /\ error = None
        /\ \A i \in 1..NJoints :
              IsFinite(act_out.out[1][i]) /\ IsFinite(act_out.out[2][i])

\* a training tick after the first one of an episode, as the tracking-loss
\* simulator runs it: either the reading is frozen and a blind step is used
\* up, or the reading is stored and the drop probability is raised, or the
\* reading is stored and a blind interval starts
TrackingLossTick ==
    \/ /\ agent.lose_tracking_n_steps_remaining > 0
       /\ agent'.lose_tracking_n_steps_remaining =
              agent.lose_tracking_n_steps_remaining - 1
       /\ agent'.lose_tracking_probability = agent.lose_tracking_probability
       /\ Last(agent'.stacked_obs_puck_pos) = Last(agent.stacked_obs_puck_pos)
    \/ /\ agent.lose_tracking_n_steps_remaining = 0
       /\ Last(agent'.stacked_obs_puck_pos) = Last(hist').puck
       /\ \/ /\ agent'.lose_tracking_probability =
                    RAdd(agent.lose_tracking_probability,
                         agent.loss_of_tracking_prob_inc_per_step)
             /\ agent'.lose_tracking_n_steps_remaining = 0
          \/ /\ agent'.lose_tracking_probability = RInt(0)
             /\ agent'.lose_tracking_n_steps_remaining \in
                    agent.loss_of_tracking_min_steps ..
                    agent.loss_of_tracking_max_steps - 1

\* C20: in training mode every tick after the first one of an episode runs
\* the tracking-loss simulator in the same way under every scheme 2..7.
C20_TrackingLossStep ==
    (~agent.evaluate /\ ticks >= 1 /\ ticks' = ticks + 1) => TrackingLossTick
C20_TrackingLossInEveryScheme == [][C20_TrackingLossStep]_vars

\* the same statement for scheme 7 alone
TrackingLossInScheme7 ==
    [][agent.scheme = 7 => C20_TrackingLossStep]_vars

\* the ticks logged in calls
IsTick(t) == calls[t].kind = "obs"
\* calls t..u are ticks of one episode
SameEpisode(t, u) == \A k \in t..u : IsTick(k)
\* a non-blind tick that starts no blind interval
PlainTick(t) == IsTick(t) /\ ~calls[t].blind /\ ~calls[t].started
\* the last call up to t that started a blind interval or was a reset
LastDropout(t) ==
    LET zs == {u \in 1..t : ~IsTick(u) \/ calls[u].started}
    IN  IF zs = {} THEN 0 ELSE CHOOSE u \in zs : \A v \in zs : v <= u

\* C21: in training under scheme 7, a tick that starts a blind interval
\* samples a length n with min_steps <= n < max_steps and stores its own
\* reading; each of the next n ticks of the episode stores a copy of that
\* reading (position and rotation) and decrements the counter by one; the
\* tick after them stores its fresh reading.
C21_BlindInterval ==
    \A t \in 1..Len(calls) :
        (IsTick(t) /\ calls[t].started) =>
            LET n == calls[t].steps
            IN  /\ n \in agent.loss_of_tracking_min_steps ..
                         (agent.loss_of_tracking_max_steps - 1)
                /\ calls[t].puck = calls[t].reading.puck
                /\ calls[t].rot = calls[t].reading.rot
                /\ \A k \in 1..n :
                      (t + k <= Len(calls) /\ SameEpisode(t, t + k)) =>
                          /\ calls[t + k].blind
                          /\ calls[t + k].puck = calls[t].reading.puck
                          /\ calls[t + k].rot = calls[t].reading.rot
                          /\ calls[t + k].steps = n - k
                /\ (t + n + 1 <= Len(calls) /\ SameEpisode(t, t + n + 1)) =>
                      /\ ~calls[t + n + 1].blind
                      /\ calls[t + n + 1].puck = calls[t + n + 1].reading.puck
                      /\ calls[t + n + 1].rot = calls[t + n + 1].reading.rot
C21_Witness ==
    \E t \in 1..Len(calls) :
        /\ IsTick(t) /\ calls[t].started /\ calls[t].steps = 2
        /\ t + 3 <= Len(calls) /\ SameEpisode(t, t + 3)
        /\ calls[t + 1].reading.puck # calls[t + 1].puck
        /\ calls[t + 1].reading.rot # calls[t + 1].rot
        /\ calls[t + 2].puck = calls[t].puck /\ calls[t + 2].steps = 0
        /\ calls[t + 3].puck # calls[t].puck

\* k float64 additions of inc to 0.0
RECURSIVE RepeatAdd(_, _)
RepeatAdd(inc, k) == IF k = 0 THEN RInt(0) ELSE FAdd(RepeatAdd(inc, k - 1), inc)
\* the drop probability before call t
ProbBefore(t) == IF t = 1 THEN RInt(0) ELSE calls[t - 1].prob
\* the per-tick rule of the drop probability, the first tick of an episode
\* changing nothing
ProbRule(t) ==
    IF calls[t].started THEN calls[t].prob = RInt(0)
    ELSE IF calls[t].blind \/ calls[t].first THEN calls[t].prob = ProbBefore(t)
    ELSE calls[t].prob = FAdd(ProbBefore(t), agent.loss_of_tracking_prob_inc_per_step)

\* C22: the drop probability is 0 on the tick that starts a blind interval,
\* unchanged on a blind tick and raised by the increment on every other
\* tick; between two dropouts it equals the number of non-blind,
\* non-triggering ticks since the last dropout or reset times the increment.
C22_ProbabilityIsCountTimesIncrement ==
    \A t \in 1..Len(calls) :
        IsTick(t) =>
            calls[t].prob =
                FMul(RInt(Cardinality({u \in (LastDropout(t) + 1)..t : PlainTick(u)})),
                     agent.loss_of_tracking_prob_inc_per_step)
\* C22 (amended): the drop probability is 0 on the tick that starts a blind
\* interval, unchanged on a blind tick and on the first tick of an episode,
\* and the float64 sum of itself and the increment on every other tick; so
\* between two dropouts it is non-decreasing and is the increment added k
\* times to 0.0 in float64, k the number of non-blind, non-triggering ticks
\* other than an episode's first since the last dropout or reset.
C22_ProbabilityIsRepeatedSum ==
    \A t \in 1..Len(calls) :
        IsTick(t) =>
            /\ ProbRule(t)
            /\ ~calls[t].started => RLeq(ProbBefore(t), calls[t].prob)
            /\ calls[t].prob =
                  RepeatAdd(agent.loss_of_tracking_prob_inc_per_step,
                            Cardinality({u \in (LastDropout(t) + 1)..t :
                                            PlainTick(u) /\ ~calls[u].first}))
C22_Witness ==
    /\ Len(calls) = 7 /\ SameEpisode(1, 7)
    /\ \A t \in 2..7 : PlainTick(t)
    /\ calls[7].prob = RepeatAdd(agent.loss_of_tracking_prob_inc_per_step, 6)
    /\ calls[7].prob # FMul(RInt(6), agent.loss_of_tracking_prob_inc_per_step)

\* C23: the drop probability lies in [0, 1] and the remaining-steps counter
\* is a non-negative integer in every state of the tracking-loss simulator.
C23_TrackingStateInRange ==
    /\ RLeq(RInt(0), agent.lose_tracking_probability)
    /\ RLeq(agent.lose_tracking_probability, RInt(1))
    /\ agent.lose_tracking_n_steps_remaining \in Nat

\* the limit joint i of the proposal violates
ViolatedLimit(joint_vel, i) ==
    robot_joint_vel_limit_scaled(
        IF i \in joints_above_vel_limit(joint_vel) THEN 1 ELSE 0, i)
\* the least of a set of rationals
RMin(rs) == CHOOSE r \in rs : \A q \in rs : RLeq(r, q)
\* min over the out-of-limit joints of limit / velocity, exactly
ExactRatio(joint_vel) ==
    RMin({Rat(ViolatedLimit(joint_vel, i)[1] * joint_vel[i][2],
              ViolatedLimit(joint_vel, i)[2] * joint_vel[i][1]) :
            i \in joints_outside_vel_limit(joint_vel)})
\* the same with the division done in float64
FloatRatio(joint_vel) ==
    RMin({FDiv(ViolatedLimit(joint_vel, i), joint_vel[i]) :
            i \in joints_outside_vel_limit(joint_vel)})
\* the returned joint positions are current_joint_pos + sim_dt * velocity
Integrated ==
    \A i \in 1..NJoints :
        act_out.out[1][i] =
            FAdd(RInt(agent.current_joint_pos[i]),
                 FMul(F64(Rat(agent.sim_dt, 10)), act_out.out[2][i]))

InUnitSquare(v) == InUnit(v[1]) /\ InUnit(v[2])
\* the action and the filtered target of the last infer_action are in
\* [-1, 1]^2
ActionAndTargetInUnit ==
    /\ InUnitSquare(act_out.action)
    /\ InUnitSquare(act_out.filtered)
    /\ agent.filter_actions_enabled => InUnitSquare(agent.previous_ee_pos_xy_norm)

RECURSIVE Run(_)
Run(t) ==
    IF t = 0 THEN 0
    ELSE IF RLt(calls[t].x, RInt(0)) THEN Run(t - 1) + 1 ELSE 0

\* C26: in scheme 2 a tick with normalized puck x >= 0 gives the timer
\* element -1 and zeroes the timer; the k-th consecutive tick with x < 0
\* gives min(1, (k - 1) * dt / MAX_TIME_UNTIL_PENALTY_S).
C26_UnsignedTimerIsProduct ==
    \A t \in 1..Len(calls) :
        IF RLt(calls[t].x, RInt(0))
        THEN calls[t].out =
                 Clip1(FDiv(FMul(RInt(Run(t) - 1), value_out.dt),
                            RInt(MAX_TIME_UNTIL_PENALTY_S)))
        ELSE calls[t].out = RInt(-1) /\ calls[t].timer = RInt(0)
\* C26 (amended): the k-th consecutive tick with x < 0 gives min(1, T /
\* MAX_TIME_UNTIL_PENALTY_S), T being dt added k - 1 times to 0.0 in
\* float64: the value before that tick's increment.
C26_UnsignedTimerIsSum ==
    \A t \in 1..Len(calls) :
        IF RLt(calls[t].x, RInt(0))
        THEN /\ calls[t].out =
                   Clip1(FDiv(RepeatAdd(value_out.dt, Run(t) - 1),
                              RInt(MAX_TIME_UNTIL_PENALTY_S)))
             /\ calls[t].timer = RepeatAdd(value_out.dt, Run(t))
        ELSE calls[t].out = RInt(-1) /\ calls[t].timer = RInt(0)
C26_Witness ==
    /\ Len(calls) = 8 /\ value_out.dt = RInt(5)
    /\ calls[1].x = RInt(0) /\ calls[1].out = RInt(-1)
    /\ \A t \in 2..8 : calls[t].x = Rat(-1, 2)
    /\ calls[2].out = RInt(0)
    /\ calls[8].out = FDiv(Rat(28, 1), RInt(MAX_TIME_UNTIL_PENALTY_S))
    /\ calls[8].out # FDiv(Rat(30, 1), RInt(MAX_TIME_UNTIL_PENALTY_S))

\* the last call of the reward was an episode end: absorbing, or made at a
\* simulation time below 2 * dt
Terminal == reward_out.absorbing \/ reward_out.time < 2 * agent.sim_dt
\* the last call of the reward met the fault condition
FaultCondition ==
    /\ RLt(Rat(3 * TournamentReward_MAX_TIME_UNTIL_PENALTY_S, 4),
           RInt(reward_out.read.timer))
    /\ Abs(reward_out.puck_pos[1]) >= StuckHalfWidth
\* the last call changed the timer and the side by the update rule
TimerUpdated ==
    LET b == reward_out.before
        s == Sign(reward_out.puck_pos[1])
        side == IF b.penalty_side = None THEN s ELSE b.penalty_side[1]
    IN  IF s = side
        THEN reward_out.read = [side |-> <<side>>,
                                timer |-> b.penalty_timer + agent.sim_dt]
        ELSE reward_out.read = [side |-> <<-1 * side>>, timer |-> 0]
\* the calls made since the last episode end before the last call
CallsSinceEnd ==
    LET n == Len(calls)
        ends == {j \in 1..(n - 1) : calls[j].edge}
        j == IF ends = {} THEN 0 ELSE CHOOSE k \in ends : \A m \in ends : m <= k
    IN  n - j

\* C27: a call of TournamentReward that is not absorbing and is made at a
\* simulation time of at least 2 * dt returns 0 and changes only the penalty
\* timer and side, by the update rule; a reward other than 0 is returned
\* only by a call that is absorbing or made at a time below 2 * dt.
C27_EndOfEpisodeOnly ==
    reward_out # None =>
        /\ ~Terminal =>
              /\ error = None
              /\ reward_out.r = RInt(0)
              /\ TimerUpdated
              /\ reward = [reward_out.before EXCEPT
                              !.penalty_side = reward_out.read.side,
                              !.penalty_timer = reward_out.read.timer]
        /\ (error = None /\ reward_out.r # RInt(0)) => Terminal
C27_Witness ==
    /\ Len(calls) = 3 /\ \A k \in 1..3 : ~calls[k].edge
    /\ FaultCondition
    /\ reward_out.puck_pos = <<-500, 300>>
    /\ reward.penalty_timer = 3 * agent.sim_dt /\ reward.penalty_side = <<-1>>
    /\ reward_out.r = RInt(0)

\* C28: after every call of TournamentReward that takes the terminal branch
\* the penalty timer is 0 and the side is unset, whatever reward was
\* returned; the timer a call reads has accumulated since the last
\* terminal call only.
C28_TimerResetAtEpisodeEnd ==
    reward_out # None =>
        /\ Terminal =>
              /\ error = None
              /\ reward.penalty_timer = 0
              /\ reward.penalty_side = None
        /\ reward_out.read.timer <= CallsSinceEnd * agent.sim_dt
C28_Witness ==
    /\ Len(calls) = 4 /\ calls[2].edge /\ ~calls[3].edge /\ calls[4].edge
    /\ calls[1].side = <<-1>> /\ calls[2].side = <<-1>>
    /\ calls[3].side = <<-1>> /\ calls[4].side = <<-1>>
    /\ reward_out.read.timer = 2 * agent.sim_dt
    /\ reward_out.r = reward.reward_agent_faul
    /\ reward.penalty_timer = 0 /\ reward.penalty_side = None

\* C29: on a terminal step a puck within the goal-width band gives the
\* score-goal reward beyond the far edge and the receive-goal reward beyond
\* the near edge, whatever the stuck and fault conditions; otherwise, with
\* the timer above 0.75 * MAX_TIME_UNTIL_PENALTY_S and |x| >= 0.15, the
\* reward is the agent-fault value for side -1 and the opponent-fault value
\* for side +1, and the side is the sign of the puck's x.
C29_GoalAndFaultRewards ==
    (reward_out # None /\ Terminal) =>
        LET x == reward_out.puck_pos[1]
            y == reward_out.puck_pos[2]
            band == 2 * Abs(y) <= GoalWidth
            side == reward_out.read.side[1]
        IN  /\ error = None
            /\ IF band /\ 2 * x > TableLength
               THEN reward_out.r = reward.reward_agent_score_goal
               ELSE IF band /\ 2 * x < -TableLength
               THEN reward_out.r = reward.reward_agent_receive_goal
               ELSE FaultCondition =>
                       /\ side = Sign(x)
                       /\ side = -1 => reward_out.r = reward.reward_agent_faul
                       /\ side = 1 => reward_out.r = reward.reward_opponent_faul
C29_Witness ==
    /\ reward_out # None /\ Terminal /\ FaultCondition
    /\ reward_out.puck_pos = <<-1100, 0>>
    /\ reward_out.read.side = <<-1>>
    /\ reward_out.r = reward.reward_agent_receive_goal
    /\ reward_out.r # reward.reward_agent_faul

\* C30: TournamentReward never raises its ValueError: whenever a terminal
\* step meets the fault condition the side is -1 or +1, also in runs where
\* the side was first determined with the puck at x = 0.
C30_FaultSideIsSet ==
    /\ error = None
    /\ (reward_out # None /\ Terminal /\ FaultCondition) =>
          reward_out.read.side \in {<<-1>>, <<1>>}
C30_Witness ==
    /\ Len(calls) = 4
    /\ calls[1].side = <<0>> /\ ~calls[1].edge
    /\ calls[2].side = <<0>> /\ calls[2].edge
    /\ Terminal /\ FaultCondition
    /\ reward_out.read.side = <<1>>
    /\ reward_out.r = reward.reward_opponent_faul

\* ------------------------------------------------------------ C31
\* the calls of the episode of call t up to t: from the last call made in
\* the first two steps after a reset
EpisodeStart(t) ==
    CHOOSE s \in 1..t : calls[s].early /\ \A u \in (s + 1)..t : ~calls[u].early
ShaperTerminal(t) == calls[t].absorbing \/ calls[t].early
Touched(s, t) == \E u \in s..t : calls[u].hit

\* C31 as stated: in each of the three shapers has_hit is false until the
\* first call of the episode with the end-effector within puck_radius +
\* mallet_radius + 0.005 of the puck, true after that call, and true after
\* every later call of the episode that is neither absorbing nor in the
\* first two steps
C31_HasHitLatches ==
    \A t \in 1..Len(calls) :
        LET s == EpisodeStart(t)
        IN  /\ ~Touched(s, t) => ~calls[t].has_hit
            /\ (calls[t].hit /\ ~Touched(s, t - 1)) => calls[t].has_hit
            /\ (Touched(s, t - 1) /\ ~ShaperTerminal(t)) => calls[t].has_hit

\* C31 amended: HitReward discards a touch on a call that is absorbing or in
\* the first two steps, so after a call that is neither, has_hit is true
\* exactly when some such call of the episode had a touch, and after the
\* other calls it is false; in DefendReward and PrepareReward has_hit after
\* a call that is not absorbing is true exactly when some call of the
\* episode so far, the first one included, had a touch
C31_HasHitLatchesOutsideBoundary ==
    \A t \in 1..Len(calls) :
        LET s == EpisodeStart(t)
        IN  IF reward.kind = "Hit"
            THEN calls[t].has_hit = (~ShaperTerminal(t) /\ Touched(s + 1, t))
            ELSE ~calls[t].absorbing => (calls[t].has_hit = Touched(s, t))

\* a HitReward episode whose first call had a touch that was discarded, a
\* later touch, and after it a call far from the puck with has_hit still true
C31_Witness ==
    /\ Len(calls) >= 3
    /\ calls[1].hit
    /\ ~calls[1].has_hit
    /\ \E t \in 3..Len(calls) :
          /\ EpisodeStart(t) = 1
          /\ ~ShaperTerminal(t)
          /\ ~calls[t].hit
          /\ calls[t].has_hit
          /\ reward.kind = "Hit"

\* ------------------------------------------------------------ C32
\* C32: in each of the three shapers has_hit is false after an absorbing
\* call, whatever the distance between end-effector and puck on that call
C32_HasHitClearedAtEpisodeEnd ==
    \A t \in 1..Len(calls) : calls[t].absorbing => ~calls[t].has_hit

\* the same for HitReward alone, which clears the flag after testing the
\* distance
HitRewardClearsHasHit ==
    reward.kind = "Hit" => C32_HasHitClearedAtEpisodeEnd

\* ------------------------------------------------------------ C33
ShaperEnd == reward_out.absorbing \/ reward_out.time < 2 * agent.sim_dt

\* C33: a call of HitReward that is absorbing or comes in the first two
\* steps returns 50 when the puck is past the far edge inside the goal band
\* and 0 otherwise, whatever has_hit and the end-effector position are
C33_HitTerminalReward ==
    (reward.kind = "Hit" /\ reward_out # None /\ ShaperEnd) =>
        reward_out.r =
            IF 2 * reward_out.puck_pos[1] > TableLength
               /\ 2 * Abs(reward_out.puck_pos[2]) < GoalWidth
            THEN RInt(50)
            ELSE RInt(0)

\* an absorbing call of a HitReward whose has_hit an earlier call had set,
\* with the puck in the far goal and 50 returned
C33_Witness ==
    /\ reward.kind = "Hit"
    /\ reward_out # None
    /\ reward_out.absorbing
    /\ reward_out.before.has_hit
    /\ reward_out.r = RInt(50)

\* ------------------------------------------------------------ C34
\* 0.005 * ||q - init_state||
Deviation == RMul(Rat(1, 200), np_linalg_norm(VSub(reward_out.q, init_state)))
InDefendedGoal ==
    /\ 2 * reward_out.puck_pos[1] < -TableLength
    /\ 2 * Abs(reward_out.puck_pos[2]) < GoalWidth
Stopped == Abs(reward_out.puck_vel[1]) < 100

\* C34: an absorbing call of DefendReward returns -100 less the joint
\* penalty when the puck is behind the defended edge inside the goal band,
\* however slow it is, else 150 less the penalty when the speed along x is
\* below 0.1, else 0 less the penalty; and a call that is not absorbing
\* returns its shaping reward less the same penalty
C34_DefendTerminalReward ==
    (reward.kind = "Defend" /\ reward_out # None) =>
        IF reward_out.absorbing
        THEN RAdd(reward_out.r, Deviation) =
                 IF InDefendedGoal THEN RInt(-100)
                 ELSE IF Stopped THEN RInt(150)
                 ELSE RInt(0)
        ELSE RAdd(reward_out.r, Deviation) =
                 defend_shaping_reward(reward_out.ee_pos, reward_out.puck_pos,
                                       reward_out.puck_vel)

\* an absorbing call of DefendReward with a slow puck in the defended goal
\* and the joints away from init_state: -100 less a penalty that is not 0
C34_Witness ==
    /\ reward.kind = "Defend"
    /\ reward_out # None
    /\ reward_out.absorbing
    /\ InDefendedGoal
    /\ Stopped
    /\ RLt(RInt(0), Deviation)
    /\ reward_out.r = RSub(RInt(-100), Deviation)

\* ------------------------------------------------------------ C35
\* the last call was a tick with tracking lost
BlindTick == last = "obs" /\ Last(calls).blind
\* the timer state and the normalized readings of the tick before
TickBefore == hist[Len(hist) - 1]

\* C35: on a blind tick of scheme 7 in training the newest entries of the
\* puck position and rotation buffers are those of the tick before, the
\* newest entries of the two end-effector buffers are the values of this
\* tick, and the penalty side and timer, and with them the first element of
\* the output, follow from the puck x of this tick
C35_BlindTickFreezesPuckOnly ==
    BlindTick =>
        LET now == Last(hist)
            s == RSign(now.puck[1])
            n == Len(calls)
        IN  /\ Last(agent.stacked_obs_puck_pos) = calls[n - 1].puck
            /\ Last(agent.stacked_obs_puck_rot) = calls[n - 1].rot
            /\ Last(agent.stacked_obs_participant_ee_pos) = now.ee
            /\ Last(agent.stacked_obs_opponent_ee_pos) = now.opp
            /\ IF s = TickBefore.side[1]
               THEN /\ agent.penalty_side = TickBefore.side
                    /\ agent.penalty_timer = TickBefore.timer + agent.sim_dt
               ELSE /\ agent.penalty_side = <<-1 * TickBefore.side[1]>>
                    /\ agent.penalty_timer = 0
            /\ obs_out[1] = Clip1(Rat(agent.penalty_side[1] * agent.penalty_timer,
                                      MAX_TIME_UNTIL_PENALTY_S))

\* two blind ticks with the puck on the other half: the first resets a
\* running timer, after the second the first element of the output has
\* changed sign, and the newest puck entry is still the one stored before
C35_Witness ==
    /\ BlindTick
    /\ Len(hist) = 5 /\ Len(calls) = 5
    /\ calls[4].blind
    /\ hist[3].side = <<-1>> /\ hist[3].timer > 0
    /\ hist[4].side = <<1>> /\ hist[4].timer = 0
    /\ RLt(RInt(0), obs_out[1])
    /\ Last(agent.stacked_obs_puck_pos) = calls[3].puck
    /\ Last(agent.stacked_obs_puck_pos) # Last(hist).puck
    /\ Last(agent.stacked_obs_participant_ee_pos) # hist[3].ee
====
